---- MODULE Spec2Model ----
(***************************************************************************)
(* A model of the EDINET retrieval pipeline of alexweberk/edinet-sdk:      *)
(*   - EdinetClient.list_docs / get_zip_bytes and the retrying fetcher     *)
(*     EdinetClient._make_request_with_retry   (src/src/edinet/client.py)  *)
(*   - CacheManager, the TTL-bound file cache  (src/src/cache.py)          *)
(*   - filter_filings (src/src/edinet/funcs.py) and _filter_documents      *)
(*   - EdinetClient.get_most_recent_documents and download_documents       *)
(* Dates are day numbers, None is the string "None", Python lists are      *)
(* sequences.                                                              *)
(***************************************************************************)
EXTENDS Integers, Sequences, FiniteSets, TLC

None == "None"
\* list_docs(end_date=None): no end date is given
NoDate == -1

(* ------------------------------ bounds --------------------------------- *)
\* dates are the day numbers 0..MaxDay
MaxDay == 2
\* the client is constructed with max_retries in 0..MaxRetriesArg
MaxRetriesArg == 2

(* ------------------------- program constants --------------------------- *)
HTTP_SUCCESS == 200
HTTP_CLIENT_ERROR_START == 400
HTTP_SERVER_ERROR_END == 600

SUPPORTED_DOC_TYPES == {"160", "140", "180", "350", "030", "120"}

(* ------------------------------ filings -------------------------------- *)
\* FilingMetadata, restricted to the fields the client and the filters read.
Filing(id, edinet, sec, name, form, typ, desc) ==
    [docID |-> id, edinetCode |-> edinet, secCode |-> sec, filerName |-> name,
     formCode |-> form, docTypeCode |-> typ, docDescription |-> desc]

F1 == Filing("S1", "E1", "1111", "XY", "F0", "160", "AB")
F2 == Filing("S2", "E2", None, "X", None, "180", None)
F3 == Filing("S3", "E1", "2222", None, "F0", "999", "A")
F4 == Filing("S4", "E2", "3333", "X", "F0", "120", "AB")

\* The `results` lists a daily listing may carry (API response order).
ResultLists == { <<>>, <<F1, F2>>, <<F3, F4, F1>> }

InList(x, list) == \E i \in DOMAIN list : list[i] = x

\* _filter_documents with a listed document type surviving its exclusion.
filter_documents_listed_wins(docs, edinet_codes, doc_type_codes, excluded_doc_type_codes, require_sec_code) ==
    LET keep(doc) ==
          /\ doc.docTypeCode \in SUPPORTED_DOC_TYPES
          /\ ~(edinet_codes # <<>> /\ ~InList(doc.edinetCode, edinet_codes))
          /\ ~(doc_type_codes # <<>> /\ ~InList(doc.docTypeCode, doc_type_codes))
          /\ ~(doc_type_codes = <<>> /\ InList(doc.docTypeCode, excluded_doc_type_codes))
          /\ ~(require_sec_code /\ doc.secCode = None)
    IN  SelectSeq(docs, keep)

\* EdinetClient._filter_documents
filter_documents(docs, edinet_codes, doc_type_codes, excluded_doc_type_codes, require_sec_code) ==
    LET keep(doc) ==
          /\ doc.docTypeCode \in SUPPORTED_DOC_TYPES
          /\ ~(edinet_codes # <<>> /\ ~InList(doc.edinetCode, edinet_codes))
          /\ ~(doc_type_codes # <<>> /\ ~InList(doc.docTypeCode, doc_type_codes))
          /\ ~InList(doc.docTypeCode, excluded_doc_type_codes)
          /\ ~(require_sec_code /\ doc.secCode = None)
    IN  SelectSeq(docs, keep)

\* The filter arguments list_docs is called with (None is normalised to []).
FilterArgs ==
    { [edinet_codes |-> <<>>, doc_type_codes |-> <<>>,
       excluded_doc_type_codes |-> <<>>, require_sec_code |-> FALSE],
      [edinet_codes |-> <<"E1">>, doc_type_codes |-> <<>>,
       excluded_doc_type_codes |-> <<>>, require_sec_code |-> FALSE],
      [edinet_codes |-> <<>>, doc_type_codes |-> <<"180", "999", "120">>,
       excluded_doc_type_codes |-> <<"120">>, require_sec_code |-> FALSE],
      [edinet_codes |-> <<>>, doc_type_codes |-> <<>>,
       excluded_doc_type_codes |-> <<>>, require_sec_code |-> TRUE] }

(* --------------------------- HTTP responses ---------------------------- *)
\* Status codes a server may answer with: success, a 2xx that is not 200,
\* a redirect, a client error, a server error.
Statuses == {200, 204, 302, 404, 503}

\* Response bodies.  "success": a JSON object with a `results` key;
\* "error": a JSON object with only statusCode/message; "other": a JSON
\* object that is neither; "notjson": bytes that are no JSON document;
\* "empty": no bytes at all.
Bodies ==
    {[shape |-> "success", results |-> r] : r \in ResultLists}
      \cup {[shape |-> s, results |-> <<>>] :
               s \in {"error", "other", "notjson", "empty"}}

\* What client.get(url, params=params) yields: an httpx.HTTPError (connect
\* or timeout failure) or a response.
Responses ==
    {[kind |-> "neterr", status |-> 0, body |-> [shape |-> "empty", results |-> <<>>]]}
      \cup {[kind |-> "resp", status |-> s, body |-> b] : s \in Statuses, b \in Bodies}

\* httpx.Response.raise_for_status(): raises HTTPStatusError unless the
\* status is a 2xx.
raise_for_status(status) == ~(200 <= status /\ status <= 299)

\* response.json() raises on a body that is no JSON document.
JsonParses(body) == body.shape \in {"success", "error", "other"}

\* Whether the payload asked for can be taken from r: response.content
\* always, response.json() when the body parses.
PayloadReadable(r, return_content) ==
    r.kind = "resp" /\ (return_content \/ JsonParses(r.body))

\* The retry test of the non-200 branch.
IsRetryableStatus(status, attempt, max_retries) ==
    /\ HTTP_CLIENT_ERROR_START <= status
    /\ status < HTTP_SERVER_ERROR_END
    /\ attempt < max_retries - 1

\* The test of both exception handlers of the retry loop.
AttemptsRemain(attempt, max_retries) == attempt < max_retries - 1

\* The error the exception handlers raise on the last attempt.
ExhaustedError == "EdinetConnectionError"

\* The error raised after the retry loop ends without a return.
LoopEndError == "EdinetRetryExceededError"

\* One iteration of the loop of _make_request_with_retry, as the step it
\* ends with: "return" (the payload), "retry" (sleep, next attempt) or
\* "raise" (ExhaustedError).
AttemptStep(r, attempt, max_retries, return_content) ==
    LET onException == IF AttemptsRemain(attempt, max_retries)
                       THEN "retry" ELSE "raise"
        payload == IF PayloadReadable(r, return_content) THEN "return"
                   ELSE onException
    IN  IF r.kind = "neterr" THEN onException
        ELSE IF r.status # HTTP_SUCCESS
             THEN IF IsRetryableStatus(r.status, attempt, max_retries)
                  THEN "retry"
                  ELSE IF raise_for_status(r.status) THEN onException
                  ELSE payload
             ELSE payload

(* ------------------------------- state --------------------------------- *)
VARIABLES
    max_retries,     \* EdinetClient.max_retries
    pc,              \* "idle", "list_docs", "request", "returned", "done"
    op,              \* the public call in progress and its arguments
    current_date,    \* list_docs: the loop variable
    matching_docs,   \* list_docs: the accumulated filings
    attempt,         \* _make_request_with_retry: the loop variable
    return_content,  \* _make_request_with_retry: the argument
    resps,           \* history: the responses of the fetch in progress
    sleeps,          \* history: time.sleep calls of the fetch in progress
    fetchOut,        \* how _make_request_with_retry ended
    fetchedDates,    \* history: the dates _fetch_documents_for_date was called with
    served,          \* history: what each of those fetches produced
    outcome          \* how the public call ended

fetchVars == <<max_retries, pc, op, current_date, matching_docs, attempt,
               return_content, resps, sleeps, fetchOut, fetchedDates, served,
               outcome>>

NoFetch == [kind |-> "none", exc |-> None, status |-> 0,
            body |-> [shape |-> "empty", results |-> <<>>]]
NoOutcome == [kind |-> "none", exc |-> None, value |-> <<>>]
NoOp == [name |-> "none", start_date |-> 0, end_date |-> NoDate,
         filters |-> CHOOSE f \in FilterArgs : f.edinet_codes = <<>>
                        /\ f.doc_type_codes = <<>> /\ ~f.require_sec_code]

FetchInit ==
    /\ max_retries \in 0..MaxRetriesArg
    /\ pc = "idle"
    /\ op = NoOp
    /\ current_date = 0
    /\ matching_docs = <<>>
    /\ attempt = 0
    /\ return_content = FALSE
    /\ resps = <<>>
    /\ sleeps = 0
    /\ fetchOut = NoFetch
    /\ fetchedDates = <<>>
    /\ served = <<>>
    /\ outcome = NoOutcome

\* list_docs, lines 114-124: end_date defaults to start_date.
EndDate(o) == IF o.end_date = NoDate THEN o.start_date ELSE o.end_date

\* list_docs is called.
CallListDocs ==
    /\ pc = "idle"
    /\ \E s \in 0..MaxDay, e \in (0..MaxDay) \cup {NoDate}, f \in FilterArgs :
          op' = [name |-> "list_docs", start_date |-> s, end_date |-> e,
                 filters |-> f]
          /\ current_date' = s
    /\ matching_docs' = <<>>
    /\ pc' = "list_docs"
    /\ UNCHANGED <<max_retries, attempt, return_content, resps, sleeps,
                   fetchOut, fetchedDates, served, outcome>>

\* The loop test with the end date excluded.
LoopContinuesExclusive(date, o) == date < EndDate(o)

\* list_docs: the loop test.
LoopContinues(date, o) == date <= EndDate(o)

\* list_docs: the date after `date` (the finally clause).
NextDate(date) == date + 1

\* list_docs: the loop test holds; _fetch_documents_for_date(current_date)
\* enters _make_request_with_retry.
ListDocsFetch ==
    /\ pc = "list_docs"
    /\ LoopContinues(current_date, op)
    /\ fetchedDates' = Append(fetchedDates, current_date)
    /\ attempt' = 0
    /\ return_content' = FALSE
    /\ resps' = <<>>
    /\ sleeps' = 0
    /\ fetchOut' = NoFetch
    /\ pc' = "request"
    /\ UNCHANGED <<max_retries, op, current_date, matching_docs, served, outcome>>

\* list_docs: the loop test fails; the accumulated list is returned.
ListDocsReturn ==
    /\ pc = "list_docs"
    /\ ~LoopContinues(current_date, op)
    /\ outcome' = [kind |-> "return", exc |-> None, value |-> matching_docs]
    /\ pc' = "done"
    /\ UNCHANGED <<max_retries, op, current_date, matching_docs, attempt,
                   return_content, resps, sleeps, fetchOut, fetchedDates, served>>

\* _make_request_with_retry: one iteration of the loop.
Attempt ==
    /\ pc = "request"
    /\ attempt < max_retries
    /\ \E r \in Responses :
          LET step == AttemptStep(r, attempt, max_retries, return_content) IN
          /\ resps' = Append(resps, [kind |-> r.kind, status |-> r.status,
                                     readable |-> PayloadReadable(r, return_content)])
          /\ \/ /\ step = "retry"
                /\ sleeps' = sleeps + 1
                /\ attempt' = attempt + 1
                /\ UNCHANGED <<pc, fetchOut>>
             \/ /\ step = "raise"
                /\ fetchOut' = [NoFetch EXCEPT !.kind = "raise",
                                               !.exc = ExhaustedError]
                /\ pc' = "returned"
                /\ UNCHANGED <<sleeps, attempt>>
             \/ /\ step = "return"
                /\ fetchOut' = [kind |-> "return", exc |-> None,
                                status |-> r.status, body |-> r.body]
                /\ pc' = "returned"
                /\ UNCHANGED <<sleeps, attempt>>
    /\ UNCHANGED <<max_retries, op, current_date, matching_docs,
                   return_content, fetchedDates, served, outcome>>

\* _make_request_with_retry: the loop ended without a return or a raise.
RetryLoopEnds ==
    /\ pc = "request"
    /\ ~(attempt < max_retries)
    /\ fetchOut' = [NoFetch EXCEPT !.kind = "raise", !.exc = LoopEndError]
    /\ pc' = "returned"
    /\ UNCHANGED <<max_retries, op, current_date, matching_docs, attempt,
                   return_content, resps, sleeps, fetchedDates, served, outcome>>

\* The try block with the error-shaped response absorbed like any exception.
ClassifyAbsorbing(out) ==
    IF out.kind = "raise" THEN "skip"
    ELSE IF out.body.shape = "success" THEN "extend"
    ELSE "skip"

\* The try block with a failed fetch aborting the range.
ClassifyFailFast(out) ==
    IF out.kind = "raise" THEN "abort"
    ELSE IF out.body.shape = "success" THEN "extend"
    ELSE IF out.body.shape = "error" THEN "abort"
    ELSE "skip"

\* _fetch_documents_for_date and the try block of list_docs: what becomes of
\* the fetch.  "abort": EdinetAuthenticationError is raised; "extend": the
\* filings are filtered and appended; "skip": the error is logged.
Classify(out) ==
    IF out.kind = "raise" THEN "skip"
    ELSE IF out.body.shape = "success" THEN "extend"
    ELSE IF out.body.shape = "error" THEN "abort"
    ELSE "skip"

\* list_docs: matching_docs.extend(filtered_docs)
Extend(docs, filtered_docs) == docs \o filtered_docs

\* The history entry of one per-date fetch.
ServedEntry(out) ==
    IF out.kind = "raise" THEN [kind |-> "failed", results |-> <<>>]
    ELSE IF out.body.shape = "success"
         THEN [kind |-> "listed", results |-> out.body.results]
    ELSE IF out.body.shape = "error" THEN [kind |-> "error", results |-> <<>>]
    ELSE [kind |-> "invalid", results |-> <<>>]

\* list_docs: the rest of the loop body, after the fetch of current_date.
ListDocsHandle ==
    /\ pc = "returned"
    /\ op.name = "list_docs"
    /\ served' = Append(served, ServedEntry(fetchOut))
    /\ current_date' = NextDate(current_date)
    /\ LET c == Classify(fetchOut) IN
       \/ /\ c = "abort"
          /\ outcome' = [kind |-> "raise", exc |-> "EdinetAuthenticationError",
                         value |-> <<>>]
          /\ pc' = "done"
          /\ UNCHANGED matching_docs
       \/ /\ c = "extend"
          /\ matching_docs' =
                Extend(matching_docs,
                       filter_documents(fetchOut.body.results,
                                       op.filters.edinet_codes,
                                       op.filters.doc_type_codes,
                                       op.filters.excluded_doc_type_codes,
                                       op.filters.require_sec_code))
          /\ pc' = "list_docs"
          /\ UNCHANGED outcome
       \/ /\ c = "skip"
          /\ pc' = "list_docs"
          /\ UNCHANGED <<matching_docs, outcome>>
    /\ UNCHANGED <<max_retries, op, attempt, return_content, resps, sleeps,
                   fetchOut, fetchedDates>>

\* get_zip_bytes is called: _make_request_with_retry(..., return_content=True).
CallGetZipBytes ==
    /\ pc = "idle"
    /\ op' = [NoOp EXCEPT !.name = "get_zip_bytes"]
    /\ attempt' = 0
    /\ return_content' = TRUE
    /\ resps' = <<>>
    /\ sleeps' = 0
    /\ fetchOut' = NoFetch
    /\ pc' = "request"
    /\ UNCHANGED <<max_retries, current_date, matching_docs, fetchedDates,
                   served, outcome>>

\* get_zip_bytes: `if not zip_bytes: raise EdinetDocumentFetchError`.
GetZipBytesHandle ==
    /\ pc = "returned"
    /\ op.name = "get_zip_bytes"
    /\ outcome' =
         IF fetchOut.kind = "raise"
         THEN [kind |-> "raise", exc |-> fetchOut.exc, value |-> <<>>]
         ELSE IF fetchOut.body.shape = "empty"
              THEN [kind |-> "raise", exc |-> "EdinetDocumentFetchError",
                    value |-> <<>>]
              ELSE [kind |-> "return", exc |-> None, value |-> <<fetchOut.body>>]
    /\ pc' = "done"
    /\ UNCHANGED <<max_retries, op, current_date, matching_docs, attempt,
                   return_content, resps, sleeps, fetchOut, fetchedDates, served>>


(* ------------------------------ the cache ------------------------------ *)
\* now ranges over 0..MaxClock
MaxClock == 2
\* the CacheManager is constructed with default_ttl = DefaultTtl
DefaultTtl == 1
\* get_json(key, ttl=None): no ttl is given
NoTtl == -1

Keys == {"filings:d0:2"}

\* hashlib.sha256(key.encode()).hexdigest(): distinct keys, distinct digests.
get_cache_key(key) == <<"sha256", key>>

\* The cache path with one suffix for both kinds of entry.
get_cache_path_one_suffix(key, is_binary) == <<get_cache_key(key), ".json">>

\* CacheManager._get_cache_path
get_cache_path(key, is_binary) ==
    <<get_cache_key(key), IF is_binary THEN ".bin" ELSE ".json">>

Paths == {get_cache_path(k, b) : k \in Keys, b \in BOOLEAN}

\* Python values handed to set_json: a dict and a list of JSON types, a
\* tuple, a set (which json cannot serialize) and a list that contains
\* itself.
PyValue(type, items) == [type |-> type, items |-> items]
JsonValues == { PyValue("dict", <<"results">>), PyValue("list", <<"a", "b">>),
                PyValue("tuple", <<"a", "b">>), PyValue("set", <<"a">>),
                PyValue("circular", <<>>) }

\* bytes values handed to set_binary
ByteStrings == { <<>>, <<"P">>, <<"P", "K">> }
PyBytes(data) == PyValue("bytes", data)

\* File contents: a JSON document (an object or an array), text that is no
\* JSON document, bytes that are no UTF-8 text, and raw bytes.
Text(form, items) == [form |-> form, items |-> items]
BadJson == Text("badjson", <<>>)
NonUtf8 == Text("nonutf8", <<>>)

\* What json.dump accepts; it refuses a set with TypeError and a container
\* that contains itself with ValueError("Circular reference detected").
JsonSerializable(v) == v.type \in {"dict", "list", "tuple"}
JsonDumpError(v) == IF v.type = "circular" THEN "ValueError" ELSE "TypeError"

\* The exceptions set_json catches.
SetJsonCaught == {"OSError", "TypeError"}

\* json.dump(data, f): a dict becomes an object, a list or a tuple an array.
json_dump(v) ==
    IF v.type = "dict" THEN Text("object", v.items) ELSE Text("array", v.items)

\* json.load(f): an object becomes a dict, an array a list.
json_load(text) ==
    IF text.form = "object" THEN PyValue("dict", text.items)
    ELSE PyValue("list", text.items)

NoFile == [exists |-> FALSE, content |-> BadJson, mtime |-> 0, readable |-> TRUE]
File(content, mtime) ==
    [exists |-> TRUE, content |-> content, mtime |-> mtime, readable |-> TRUE]

\* The outcome of a cache call.
Miss == [kind |-> "miss", value |-> PyValue("None", <<>>)]
Hit(v) == [kind |-> "hit", value |-> v]
Raised(exc) == [kind |-> "raise", value |-> PyValue(exc, <<>>)]
Stored(ok) == [kind |-> IF ok THEN "True" ELSE "False", value |-> PyValue("bool", <<>>)]

\* The expiry test with the boundary excluded.
is_expired_at_ttl(file, ttl, time) ==
    \/ ~file.exists
    \/ time - file.mtime >= ttl

\* CacheManager._is_expired
is_expired(file, ttl, time) ==
    \/ ~file.exists
    \/ time - file.mtime > ttl

\* `ttl if ttl is not None else self.default_ttl`
EffectiveTtl(ttl) == IF ttl = NoTtl THEN DefaultTtl ELSE ttl

\* CacheManager.get_json
get_json(file, ttl, time) ==
    IF is_expired(file, EffectiveTtl(ttl), time) THEN Miss
    ELSE IF ~file.readable THEN Miss                      \* OSError
    ELSE IF file.content.form = "nonutf8"
         THEN Raised("UnicodeDecodeError")                \* not caught
    ELSE IF file.content.form \in {"object", "array"}
         THEN Hit(json_load(file.content))
    ELSE Miss                                             \* JSONDecodeError

\* CacheManager.get_binary
get_binary(file, ttl, time) ==
    IF is_expired(file, EffectiveTtl(ttl), time) THEN Miss
    ELSE IF ~file.readable THEN Miss                      \* OSError
    ELSE Hit(PyValue("bytes", file.content.items))

\* What the disk does to a write: "ok", "open_fails" (open() raises OSError),
\* "write_fails" (open() truncates the file, the write raises OSError).
DiskConditions == {"ok", "open_fails", "write_fails"}

\* The proper prefixes of data: what a failed write may leave behind.
Prefixes(data) == {SubSeq(data, 1, n) : n \in 0..(Len(data) - 1)}

VARIABLES
    files,      \* the cache directory: path -> file
    now,        \* time.time()
    cacheOp,    \* the cache call just made: its arguments and its outcome
    lastSet     \* history: path -> the latest set call on it

cacheVars == <<files, now, cacheOp, lastSet>>

NoCall == [name |-> "none", key |-> "none", ttl |-> NoTtl, out |-> Miss]
NeverSet == [state |-> "never", value |-> PyValue("None", <<>>), time |-> 0]
\* A failed set: the value and the time of the latest completed set on the
\* path stay on record.
SetFailed(last) == [last EXCEPT !.state = "failed"]

CacheInit ==
    /\ files = [p \in Paths |-> NoFile]
    /\ now = 0
    /\ cacheOp = NoCall
    /\ lastSet = [p \in Paths |-> NeverSet]

\* CacheManager.set_json
set_json ==
    \E key \in Keys, data \in JsonValues, disk \in DiskConditions :
        LET path == get_cache_path(key, FALSE)
            ok == disk = "ok" /\ JsonSerializable(data)
        IN
        /\ files' = [files EXCEPT ![path] =
                        IF disk = "open_fails" THEN @
                        ELSE IF ok THEN File(json_dump(data), now)
                        ELSE File(BadJson, now)]
        /\ cacheOp' = [name |-> "set_json", key |-> key, ttl |-> NoTtl,
                       out |-> IF disk = "ok" /\ ~JsonSerializable(data)
                                  /\ JsonDumpError(data) \notin SetJsonCaught
                               THEN Raised(JsonDumpError(data))
                               ELSE Stored(ok)]
        /\ lastSet' = [lastSet EXCEPT ![path] =
                          IF ok THEN [state |-> "stored", value |-> data, time |-> now]
                          ELSE SetFailed(@)]
        /\ UNCHANGED now

\* CacheManager.set_binary
set_binary ==
    \E key \in Keys, data \in ByteStrings, disk \in DiskConditions :
        LET path == get_cache_path(key, TRUE) IN
        /\ \/ /\ disk = "ok"
              /\ files' = [files EXCEPT ![path] = File(Text("bytes", data), now)]
           \/ /\ disk = "open_fails"
              /\ UNCHANGED files
           \/ /\ disk = "write_fails"
              /\ \E part \in Prefixes(data) :
                    files' = [files EXCEPT ![path] = File(Text("bytes", part), now)]
        /\ cacheOp' = [name |-> "set_binary", key |-> key, ttl |-> NoTtl,
                       out |-> Stored(disk = "ok")]
        /\ lastSet' = [lastSet EXCEPT ![path] =
                          IF disk = "ok"
                          THEN [state |-> "stored", value |-> PyBytes(data), time |-> now]
                          ELSE SetFailed(@)]
        /\ UNCHANGED now

TtlArgs == {NoTtl} \cup (0..MaxClock)

\* get_json(key, ttl) is called.
get_json_call ==
    \E key \in Keys, ttl \in TtlArgs :
        /\ cacheOp' = [name |-> "get_json", key |-> key, ttl |-> ttl,
                       out |-> get_json(files[get_cache_path(key, FALSE)], ttl, now)]
        /\ UNCHANGED <<files, now, lastSet>>

\* get_binary(key, ttl) is called.
get_binary_call ==
    \E key \in Keys, ttl \in TtlArgs :
        /\ cacheOp' = [name |-> "get_binary", key |-> key, ttl |-> ttl,
                       out |-> get_binary(files[get_cache_path(key, TRUE)], ttl, now)]
        /\ UNCHANGED <<files, now, lastSet>>

\* Time passes.
Tick ==
    /\ now < MaxClock
    /\ now' = now + 1
    /\ cacheOp' = NoCall
    /\ UNCHANGED <<files, lastSet>>

(* ----------------------------- the filters ---------------------------- *)
\* The characters of the strings that occur as field and filter values.
StrChars ==
    ("S1" :> <<"S", "1">>) @@ ("S2" :> <<"S", "2">>) @@ ("S3" :> <<"S", "3">>)
    @@ ("S4" :> <<"S", "4">>) @@ ("E1" :> <<"E", "1">>) @@ ("E2" :> <<"E", "2">>)
    @@ ("1111" :> <<"1", "1", "1", "1">>) @@ ("2222" :> <<"2", "2", "2", "2">>)
    @@ ("3333" :> <<"3", "3", "3", "3">>) @@ ("X" :> <<"X">>)
    @@ ("XY" :> <<"X", "Y">>) @@ ("F0" :> <<"F", "0">>)
    @@ ("160" :> <<"1", "6", "0">>) @@ ("180" :> <<"1", "8", "0">>)
    @@ ("999" :> <<"9", "9", "9">>) @@ ("120" :> <<"1", "2", "0">>)
    @@ ("A" :> <<"A">>) @@ ("AB" :> <<"A", "B">>)

\* Python's `needle in hay` for two str: hay has needle as a substring.
StrContains(hay, needle) ==
    LET h == StrChars[hay]
        n == StrChars[needle]
    IN  \E i \in 0..(Len(h) - Len(n)) : SubSeq(h, i + 1, i + Len(n)) = n

\* The keys of the `filters` dict of filter_filings, in insertion order.
FilterNames == << "doc_ids", "edinet_codes", "sec_codes", "filer_names",
                 "form_codes", "doc_type_codes", "doc_descriptions" >>

\* snake_to_camel(filter_name): camelCase with the trailing "s" removed.
snake_to_camel ==
    ("doc_ids" :> "docId") @@ ("edinet_codes" :> "edinetCode")
    @@ ("sec_codes" :> "secCode") @@ ("filer_names" :> "filerName")
    @@ ("form_codes" :> "formCode") @@ ("doc_type_codes" :> "docTypeCode")
    @@ ("doc_descriptions" :> "docDescription")

\* A filter argument: None (given = FALSE) or a list of values.
NoArg == [given |-> FALSE, values |-> <<>>]
ListArg(values) == [given |-> TRUE, values |-> values]

\* How a call ends: with a value or with an exception.
Returned(v) == [kind |-> "return", exc |-> None, value |-> v]
Raises(exc) == [kind |-> "raise", exc |-> exc, value |-> <<>>]

\* filter_filings: one term of the all(...) of matches_all_filters.  "pass",
\* "fail", or the exception that getattr or `in` raises.
FilterTerm(filing, filter_name, filter_values) ==
    IF ~filter_values.given THEN "pass"
    ELSE IF filter_values.values = <<>> THEN "fail"
    ELSE IF snake_to_camel[filter_name] \notin DOMAIN filing THEN "AttributeError"
    ELSE LET field == filing[snake_to_camel[filter_name]] IN
         IF field = None THEN "TypeError"
         ELSE IF \E i \in DOMAIN filter_values.values :
                    StrContains(field, filter_values.values[i])
              THEN "pass" ELSE "fail"

RECURSIVE MatchesFrom(_, _, _)
\* filter_filings: the all(...) over the filters from the i-th on, which stops
\* at the first term that fails or raises.
MatchesFrom(filing, filters, i) ==
    IF i > Len(FilterNames) THEN "pass"
    ELSE LET t == FilterTerm(filing, FilterNames[i], filters[FilterNames[i]]) IN
         IF t = "pass" THEN MatchesFrom(filing, filters, i + 1) ELSE t

\* filter_filings: matches_all_filters(filing)
matches_all_filters(filing, filters) == MatchesFrom(filing, filters, 1)

\* filter_filings
filter_filings(all_filings, filters) ==
    IF all_filings = <<>> THEN Returned(<<>>)
    ELSE LET verdict(i) == matches_all_filters(all_filings[i], filters)
             raising == {i \in DOMAIN all_filings : verdict(i) \notin {"pass", "fail"}}
             keep(filing) == matches_all_filters(filing, filters) = "pass"
         IN  IF raising # {}
             THEN Raises(verdict(CHOOSE i \in raising : \A j \in raising : i <= j))
             ELSE Returned(SelectSeq(all_filings, keep))

\* The lists of filings the filters are applied to.
FilingLists == { <<>>, <<F1, F2>>, <<F3, F4, F1>>, <<F4, F2, F1>> }

\* The arguments filter_filings is called with.
FilterFilingsArgs ==
    [ doc_ids : {NoArg, ListArg(<<"S1">>)},
      edinet_codes : {NoArg, ListArg(<<"E1">>)},
      sec_codes : {NoArg, ListArg(<<"1111", "3333">>)},
      filer_names : {NoArg, ListArg(<<>>), ListArg(<<"X">>), ListArg(<<"XY", "X">>)},
      form_codes : {NoArg, ListArg(<<"F0">>)},
      doc_type_codes : {NoArg, ListArg(<<>>), ListArg(<<"160">>),
                        ListArg(<<"999", "120">>)},
      doc_descriptions : {NoArg, ListArg(<<"A">>)} ]

VARIABLES
    filterCall   \* the filter call in progress: its arguments and its outcome

filterVars == <<filterCall>>

NoFilters == [n \in {FilterNames[i] : i \in DOMAIN FilterNames} |-> NoArg]
NoFilterCall == [fn |-> "none", all_filings |-> <<>>, filters |-> NoFilters,
                 docFilters |-> NoOp.filters, out |-> Returned(<<>>)]

FilterInit == filterCall = NoFilterCall

\* filter_filings(all_filings, **filters) is called.
CallFilterFilings ==
    /\ filterCall.fn = "none"
    /\ \E l \in FilingLists, f \in FilterFilingsArgs :
          filterCall' = [NoFilterCall EXCEPT !.fn = "filter_filings",
                                             !.all_filings = l, !.filters = f,
                                             !.out = filter_filings(l, f)]

\* _filter_documents(docs, ...) is called.
CallFilterDocuments ==
    /\ filterCall.fn = "none"
    /\ \E l \in FilingLists, f \in FilterArgs :
          filterCall' =
             [NoFilterCall EXCEPT
                 !.fn = "_filter_documents", !.all_filings = l, !.docFilters = f,
                 !.out = Returned(filter_documents(l, f.edinet_codes,
                                                   f.doc_type_codes,
                                                   f.excluded_doc_type_codes,
                                                   f.require_sec_code))]

\* The caller takes the result.
FilterReturn ==
    /\ filterCall.fn # "none"
    /\ filterCall' = NoFilterCall

(* ---------------------- get_most_recent_documents ---------------------- *)
\* days_back ranges over -1..MaxDaysBack
MaxDaysBack == 2
\* at most MaxQueries calls of list_docs are followed within one search
MaxQueries == 4

\* datetime.date.today()
Today == MaxDay

DaysBackArgs == (0 - 1)..MaxDaysBack

VARIABLES
    recent       \* get_most_recent_documents: arguments, locals, result

recentVars == <<recent>>

NoRecent == [active |-> FALSE, days_back |-> 0, start_date |-> 0,
             date_to_check |-> 0, filters |-> NoOp.filters, queried |-> <<>>,
             out |-> [kind |-> "none", exc |-> None, docs |-> <<>>, date |-> NoDate]]

RecentInit == recent = NoRecent

\* get_most_recent_documents: start_date = today - timedelta(days=days_back)
SearchStart(today, days_back) == today - days_back

\* get_most_recent_documents is called.
CallGetMostRecentDocuments ==
    /\ pc = "idle"
    /\ \E n \in DaysBackArgs, f \in FilterArgs :
          recent' = [NoRecent EXCEPT !.active = TRUE, !.days_back = n,
                                     !.start_date = SearchStart(Today, n),
                                     !.date_to_check = Today, !.filters = f]
    /\ pc' = "recent"
    /\ UNCHANGED <<max_retries, op, current_date, matching_docs, attempt,
                   return_content, resps, sleeps, fetchOut, fetchedDates,
                   served, outcome>>

\* get_most_recent_documents: the loop test holds; list_docs is called for
\* the single date date_to_check.
RecentQuery ==
    /\ pc = "recent"
    /\ recent.date_to_check >= recent.start_date
    /\ Len(recent.queried) < MaxQueries
    /\ recent' = [recent EXCEPT !.queried = Append(@, recent.date_to_check)]
    /\ op' = [name |-> "list_docs", start_date |-> recent.date_to_check,
              end_date |-> recent.date_to_check, filters |-> recent.filters]
    /\ current_date' = recent.date_to_check
    /\ matching_docs' = <<>>
    /\ fetchedDates' = <<>>
    /\ served' = <<>>
    /\ outcome' = NoOutcome
    /\ pc' = "list_docs"
    /\ UNCHANGED <<max_retries, attempt, return_content, resps, sleeps, fetchOut>>

\* get_most_recent_documents: what follows the call of list_docs.  A
\* non-empty list is returned with its date; an empty list moves to the
\* previous day; an exception is logged and the loop test is made again.
RecentHandle ==
    /\ pc = "done"
    /\ recent.active
    /\ op.name = "list_docs"
    /\ \/ /\ outcome.kind = "return"
          /\ outcome.value # <<>>
          /\ recent' = [recent EXCEPT !.out = [kind |-> "return", exc |-> None,
                                               docs |-> outcome.value,
                                               date |-> recent.date_to_check]]
          /\ pc' = "recent_done"
       \/ /\ outcome.kind = "return"
          /\ outcome.value = <<>>
          /\ recent' = [recent EXCEPT !.date_to_check = @ - 1]
          /\ pc' = "recent"
       \/ /\ outcome.kind = "raise"
          /\ pc' = "recent"
          /\ UNCHANGED recent
    /\ UNCHANGED <<max_retries, op, current_date, matching_docs, attempt,
                   return_content, resps, sleeps, fetchOut, fetchedDates,
                   served, outcome>>

\* get_most_recent_documents: the loop test fails; `return [], None`.
RecentReturnNone ==
    /\ pc = "recent"
    /\ recent.date_to_check < recent.start_date
    /\ recent' = [recent EXCEPT !.out = [kind |-> "return", exc |-> None,
                                         docs |-> <<>>, date |-> NoDate]]
    /\ pc' = "recent_done"
    /\ UNCHANGED <<max_retries, op, current_date, matching_docs, attempt,
                   return_content, resps, sleeps, fetchOut, fetchedDates,
                   served, outcome>>

(* -------------------------- download_documents ------------------------- *)
\* download_documents is run at most MaxRuns times over the same list
MaxRuns == 2

\* The lists of filings download_documents is called with.
DownloadLists == { <<F1, F3, F2>>, <<F2, F4>> }

\* The metadata test without the filer name.
MissingMetadataNoFiler(f) == f.docID = None \/ f.docTypeCode = None

\* `not all([doc_id, doc_type_code, filer])`
MissingMetadata(f) ==
    f.docID = None \/ f.docTypeCode = None \/ f.filerName = None

\* f"{doc_id}-{doc_type_code}-{filer}.zip"
FileName(f) == <<f.docID, "-", f.docTypeCode, "-", f.filerName, ".zip">>

\* The destinations of the filings of the lists; a missing field is
\* formatted as the text "None".
FileNames == UNION { {FileName(l[i]) : i \in DOMAIN l} : l \in DownloadLists }

\* A file of the target directory: absent, there before the first run
\* ("old"), written whole ("saved", with the bytes) or left by a write that
\* failed ("partial").
NoZip == [state |-> "absent", bytes |-> [shape |-> "empty", results |-> <<>>]]
OldZip == [NoZip EXCEPT !.state = "old"]
SavedZip(bytes) == [state |-> "saved", bytes |-> bytes]
PartialZip == [NoZip EXCEPT !.state = "partial"]

\* The existence test with a file never found.
PathNeverExists(dir, name) == FALSE

\* os.path.exists(filepath)
PathExists(dir, name) == dir[name].state # "absent"

\* save_bytes(data, filepath) under a disk condition: the directory after it.
save_bytes(dir, name, data, disk) ==
    IF disk = "ok" THEN [dir EXCEPT ![name] = SavedZip(data)]
    ELSE IF disk = "open_fails" THEN dir
    ELSE [dir EXCEPT ![name] = PartialZip]

\* The client's variables other than pc.
fetchData == <<max_retries, op, current_date, matching_docs, attempt,
               return_content, resps, sleeps, fetchOut, fetchedDates, served,
               outcome>>

VARIABLES
    dl,          \* download_documents: arguments, loop index, history
    target_dir   \* the target directory: file name -> file

dlVars == <<dl, target_dir>>

NoDownload == [active |-> FALSE, run |-> 0, filing_metadatas |-> <<>>, i |-> 1,
               requested |-> {}, dirAtStart |-> [n \in FileNames |-> NoZip],
               savedBefore |-> {}, log |-> <<>>,
               out |-> [kind |-> "none", results |-> <<>>]]

DownloadInit ==
    /\ dl = NoDownload
    /\ target_dir \in [FileNames -> {NoZip, OldZip}]

DownloadIdle ==
    /\ dl = NoDownload
    /\ target_dir = [n \in FileNames |-> NoZip]

\* download_documents is called.
CallDownloadDocuments ==
    /\ pc = "idle"
    /\ \E l \in DownloadLists :
          dl' = [NoDownload EXCEPT !.active = TRUE, !.run = 1,
                                   !.filing_metadatas = l,
                                   !.dirAtStart = target_dir]
    /\ pc' = "download"
    /\ UNCHANGED <<fetchData, target_dir>>

\* The filing the loop of download_documents is at.
DownloadCurrent == dl.filing_metadatas[dl.i]

\* download_documents: the two `continue` branches of the loop body: missing
\* metadata, or the destination file exists.
DownloadSkip ==
    /\ pc = "download"
    /\ dl.i <= Len(dl.filing_metadatas)
    /\ IF MissingMetadata(DownloadCurrent) THEN TRUE
       ELSE PathExists(target_dir, FileName(DownloadCurrent))
    /\ dl' = [dl EXCEPT !.i = @ + 1,
                        !.log = Append(@, [docID |-> DownloadCurrent.docID,
                                           event |-> "skipped"])]
    /\ UNCHANGED <<pc, fetchData, target_dir>>

\* download_documents: the destination is absent; get_zip_bytes is called.
DownloadFetch ==
    /\ pc = "download"
    /\ dl.i <= Len(dl.filing_metadatas)
    /\ ~MissingMetadata(DownloadCurrent)
    /\ ~PathExists(target_dir, FileName(DownloadCurrent))
    /\ dl' = [dl EXCEPT !.requested = @ \cup {DownloadCurrent.docID}]
    /\ op' = [NoOp EXCEPT !.name = "get_zip_bytes"]
    /\ attempt' = 0
    /\ return_content' = TRUE
    /\ resps' = <<>>
    /\ sleeps' = 0
    /\ fetchOut' = NoFetch
    /\ outcome' = NoOutcome
    /\ pc' = "request"
    /\ UNCHANGED <<max_retries, current_date, matching_docs, fetchedDates,
                   served, target_dir>>

\* download_documents: after get_zip_bytes.  Its exception is logged; its
\* bytes go to save_bytes, whose exception is logged too.
DownloadSave ==
    /\ pc = "done"
    /\ dl.active
    /\ op.name = "get_zip_bytes"
    /\ \/ /\ outcome.kind = "raise"
          /\ dl' = [dl EXCEPT !.i = @ + 1,
                              !.log = Append(@, [docID |-> DownloadCurrent.docID,
                                                 event |-> "fetch_failed"])]
          /\ UNCHANGED target_dir
       \/ /\ outcome.kind = "return"
          /\ \E disk \in DiskConditions :
                /\ target_dir' = save_bytes(target_dir, FileName(DownloadCurrent),
                                            outcome.value[1], disk)
                /\ dl' = [dl EXCEPT !.i = @ + 1,
                                    !.log = Append(@,
                                       [docID |-> DownloadCurrent.docID,
                                        event |-> IF disk = "ok" THEN "saved"
                                                  ELSE "write_failed"])]
    /\ pc' = "download"
    /\ UNCHANGED fetchData

\* download_documents: the list is exhausted; the method returns None.
DownloadReturn ==
    /\ pc = "download"
    /\ dl.i > Len(dl.filing_metadatas)
    /\ dl' = [dl EXCEPT !.out = [kind |-> "None", results |-> <<>>]]
    /\ pc' = "download_done"
    /\ UNCHANGED <<fetchData, target_dir>>

\* download_documents is called again with the same list.
DownloadAgain ==
    /\ pc = "download_done"
    /\ dl.run < MaxRuns
    /\ dl' = [NoDownload EXCEPT !.active = TRUE, !.run = dl.run + 1,
                                 !.filing_metadatas = dl.filing_metadatas,
                                 !.dirAtStart = target_dir,
                                 !.savedBefore =
                                    dl.savedBefore \cup
                                    {dl.log[k].docID : k \in
                                       {j \in DOMAIN dl.log :
                                          dl.log[j].event = "saved"}}]
    /\ pc' = "download"
    /\ UNCHANGED <<fetchData, target_dir>>

(* --------------------------- the CSV decoder --------------------------- *)
\* the tables decoded have at most MaxRows rows
MaxRows == 1
\* the archives extracted have at most MaxMembers members
MaxMembers == 2

\* The fixed list of read_csv_from_bytes and read_csv_file.
encodings ==
    <<"utf-16", "utf-16le", "utf-16be", "utf-8", "shift-jis", "euc-jp",
      "iso-8859-1", "windows-1252">>

\* The texts of cells and of column names, with their lengths in characters.
Cells == {"", "007", "NA", "x"}
Headers == {<<"k">>, <<"k", "v">>}
StrLen ==
    ("" :> 0) @@ ("007" :> 3) @@ ("NA" :> 2) @@ ("x" :> 1) @@ ("k" :> 1)
      @@ ("v" :> 1)

\* A table: a header row and rows of string cells.
Tables ==
    UNION { {[header |-> h, rows |-> rs] :
                rs \in UNION {[1..n -> [1..Len(h) -> Cells]] : n \in 0..MaxRows}} :
            h \in Headers }

RECURSIVE SumLen(_)
SumLen(cells) ==
    IF cells = <<>> THEN 0 ELSE StrLen[Head(cells)] + SumLen(Tail(cells))

RECURSIVE LinesLen(_)
\* The characters of lines of tab-separated cells, each ended by a newline.
LinesLen(rows) ==
    IF rows = <<>> THEN 0
    ELSE SumLen(Head(rows)) + Len(Head(rows)) + LinesLen(Tail(rows))

\* The characters of the tab-separated text of a table.
TextLen(t) == LinesLen(<<t.header>> \o t.rows)

\* Byte strings: the text of a table in an encoding, with the byte length.
\* "utf-16" is str.encode("utf-16"): a byte-order mark, then two bytes per
\* character; "utf-8" holds ASCII text, one byte per character; "shift-jis"
\* is a Japanese text of 17 bytes (its cells are written in Latin letters
\* here).
NoTable == [header |-> <<>>, rows |-> <<>>]
EmptyBytes == [form |-> "empty", table |-> NoTable, len |-> 0]
EncodeUtf16(t) == [form |-> "utf-16", table |-> t, len |-> 2 + 2 * TextLen(t)]
EncodeUtf8(t) == [form |-> "utf-8", table |-> t, len |-> TextLen(t)]
SjisBytes ==
    [form |-> "shift-jis",
     table |-> [header |-> <<"youso-ID", "atai">>, rows |-> << <<"007", "en">> >>],
     len |-> 17]

CsvByteStrings ==
    {EmptyBytes, SjisBytes} \cup {EncodeUtf16(t) : t \in Tables}
      \cup {EncodeUtf8(t) : t \in Tables}

\* What chardet.detect may answer for the first bytes of b.
Guesses(b) ==
    CASE b.form = "empty" -> {None}
      [] b.form = "utf-16" -> {"UTF-16"}
      [] b.form = "utf-8" -> {"ascii"}
      [] OTHER -> {"SHIFT_JIS", None}

\* The codec Python looks up for an encoding name.
Codec(name) ==
    CASE name = "UTF-16" -> "utf-16"
      [] name = "SHIFT_JIS" -> "shift-jis"
      [] OTHER -> name

\* Decoded texts: the text of a table, no text at all, one line of wrong
\* characters without tab or newline, or wrong characters in lines.
TableText(t) == [kind |-> "table", header |-> t.header, rows |-> t.rows]
EmptyText == [kind |-> "empty", header |-> <<>>, rows |-> <<>>]
OneLine == [EmptyText EXCEPT !.kind = "oneline"]
Garbled == [EmptyText EXCEPT !.kind = "garbled"]

Decoded(text) == [ok |-> TRUE, text |-> text]
DecodeError == [ok |-> FALSE, text |-> EmptyText]

\* bytes.decode(encoding).  No bytes decode to no text in every codec.  A
\* UTF-16 text with its mark decodes exactly as utf-16, with the mark kept as
\* a character as utf-16le, to one line of other characters as utf-16be, and
\* not at all in the multi-byte codecs (0xFF is no lead byte).  Bytes
\* without a mark decode as utf-16 (any variant) when their number is even,
\* to one line of other characters.
decode(b, encoding) ==
    LET codec == Codec(encoding)
        wide == codec \in {"utf-16", "utf-16le", "utf-16be"}
        latin == codec \in {"iso-8859-1", "windows-1252"}
        unmarked == IF b.len % 2 = 0 THEN Decoded(OneLine) ELSE DecodeError
    IN  IF b.len = 0 THEN Decoded(EmptyText)
        ELSE IF b.form = "utf-16"
        THEN CASE codec = "utf-16" -> Decoded(TableText(b.table))
               [] codec = "utf-16le" ->
                    Decoded(TableText([b.table EXCEPT !.header[1] = "<U+FEFF>k"]))
               [] codec = "utf-16be" -> Decoded(OneLine)
               [] latin -> Decoded(Garbled)
               [] OTHER -> DecodeError
        ELSE IF b.form = "utf-8"
        THEN IF wide THEN unmarked ELSE Decoded(TableText(b.table))
        ELSE CASE codec = "shift-jis" -> Decoded(TableText(b.table))
               [] wide -> unmarked
               [] latin -> Decoded(Garbled)
               [] OTHER -> DecodeError

\* The texts pandas reads as a missing value (its default na_values).
NaValues ==
    {"", "#N/A", "#N/A N/A", "#NA", "-1.#IND", "-1.#QNAN", "-NaN", "-nan",
     "1.#IND", "1.#QNAN", "<NA>", "N/A", "NA", "NULL", "NaN", "None", "n/a",
     "nan", "null"}

Parsed(records) == [exc |-> None, records |-> records]
ParseError(exc) == [exc |-> exc, records |-> <<>>]

\* pd.read_csv(sep="\t", dtype=str), df.replace({nan: None, "": None}) and
\* df.to_dict(orient="records"): no text raises EmptyDataError; blank lines
\* are skipped; a cell stays the string it is unless it is a missing-value
\* text, which becomes None.
read_csv(text) ==
    LET record(header, row) ==
            [h \in {header[i] : i \in DOMAIN header} |->
                LET cell == row[CHOOSE i \in DOMAIN header : header[i] = h]
                IN  IF cell \in NaValues THEN None ELSE cell]
        blank(row) == Len(row) = 1 /\ row[1] = ""
        lines == SelectSeq(text.rows, LAMBDA row : ~blank(row))
    IN  CASE text.kind = "empty" -> ParseError("EmptyDataError")
          [] text.kind = "oneline" -> Parsed(<<>>)
          [] text.kind = "garbled" -> Parsed(<< [mojibake |-> "mojibake"] >>)
          [] OTHER -> Parsed([i \in DOMAIN lines |-> record(text.header, lines[i])])

\* The handlers of the loop with only the decoding error caught.
ContinuesOnDecodeErrorOnly(exc) == exc = "UnicodeDecodeError"

\* The handlers of the loop: `except (UnicodeDecodeError, EmptyDataError,
\* ParserError): continue` and `except Exception: continue`.
Continues(exc) ==
    \/ exc \in {"UnicodeDecodeError", "EmptyDataError", "ParserError"}
    \/ exc \notin {"UnicodeDecodeError", "EmptyDataError", "ParserError"}

NoRecords(tried) == [kind |-> "None", records |-> <<>>, exc |-> None, tried |-> tried]

RECURSIVE DecodeLoop(_, _, _, _)
\* `for encoding in encodings:` from the k-th encoding on; readable is
\* whether the bytes can be got at all (a file that cannot be opened makes
\* every attempt raise OSError).
DecodeLoop(b, readable, encs, k) ==
    IF k > Len(encs) THEN NoRecords(encs)
    ELSE LET d == decode(b, encs[k])
             r == read_csv(d.text)
             exc == IF ~readable THEN "OSError"
                    ELSE IF ~d.ok THEN "UnicodeDecodeError" ELSE r.exc
         IN  IF exc = None
             THEN [kind |-> "records", records |-> r.records, exc |-> None,
                   tried |-> SubSeq(encs, 1, k)]
             ELSE IF Continues(exc) THEN DecodeLoop(b, readable, encs, k + 1)
             ELSE [kind |-> "raise", records |-> <<>>, exc |-> exc,
                   tried |-> SubSeq(encs, 1, k)]

\* BaseDocumentProcessor.read_csv_from_bytes(csv_bytes, filename)
read_csv_from_bytes(csv_bytes) == DecodeLoop(csv_bytes, TRUE, encodings, 1)

RECURSIVE Dedupe(_)
\* list(dict.fromkeys(encodings)): the first occurrence of each name.
Dedupe(seq) ==
    IF seq = <<>> THEN <<>>
    ELSE LET rest == Dedupe(SubSeq(seq, 1, Len(seq) - 1))
             last == seq[Len(seq)]
         IN  IF \E i \in DOMAIN rest : rest[i] = last THEN rest
             ELSE Append(rest, last)

\* BaseDocumentProcessor.read_csv_file(file_path), for a file of the given
\* content: the detected encoding, when there is one, goes first.
read_csv_file(content, readable, detected) ==
    DecodeLoop(content, readable,
               Dedupe((IF detected = None THEN <<>> ELSE <<detected>>)
                        \o encodings), 1)

(* ------------------------- extraction, dispatch ------------------------- *)
CSV_EXTENSION == ".csv"
MACOS_METADATA_DIR == "__MACOSX"
AUDITOR_REPORT_PREFIX == "jpaud"

\* A member of an archive.  Its name is the directories of its path and its
\* basename, the basename in three parts: the auditor prefix or nothing, the
\* rest of the stem, the extension.  readable: zip_ref.read(name) returns
\* the bytes (it raises on a damaged or encrypted member).
Member(dirs, base, bytes, readable) ==
    [dirs |-> dirs, base |-> base, bytes |-> bytes, readable |-> readable]

\* The table of the members that decode: three rows, two of them equal.
GoodTable ==
    [header |-> <<"k", "v">>,
     rows |-> << <<"007", "x">>, <<"x", "007">>, <<"007", "x">> >>]

Members ==
    { Member(<<"XBRL_TO_CSV">>, <<"", "a", ".csv">>, EncodeUtf16(GoodTable), TRUE),
      Member(<<"XBRL_TO_CSV">>, <<"", "b", ".csv">>, SjisBytes, TRUE),
      Member(<<"XBRL_TO_CSV">>, <<"jpaud", "01", ".csv">>, EncodeUtf16(GoodTable), TRUE),
      Member(<<"__MACOSX", "XBRL_TO_CSV">>, <<"", "._a", ".csv">>, EncodeUtf16(GoodTable), TRUE),
      Member(<<"XBRL_TO_CSV", "__MACOSX">>, <<"", "._b", ".csv">>, EncodeUtf16(GoodTable), TRUE),
      Member(<<"XBRL_TO_CSV">>, <<"", "c", ".CSV">>, EncodeUtf16(GoodTable), TRUE),
      Member(<<>>, <<"", "readme", ".txt">>, EncodeUtf8(GoodTable), TRUE),
      Member(<<"XBRL_TO_CSV">>, <<"", "empty", ".csv">>, EmptyBytes, TRUE),
      Member(<<"XBRL_TO_CSV">>, <<"", "damaged", ".csv">>, EncodeUtf16(GoodTable), FALSE) }

\* ZIP bytes: bytes that are no ZIP container, or an archive.
NotAZip == [readable |-> FALSE, members |-> <<>>]
Zip(members) == [readable |-> TRUE, members |-> members]
Zips ==
    {NotAZip} \cup
    {Zip(ms) : ms \in UNION {[1..n -> Members] : n \in 0..MaxMembers}}

\* process_zip_bytes: the comprehension over zip_ref.namelist().
csv_files(zip) ==
    SelectSeq(zip.members,
              LAMBDA m : /\ m.base[3] = CSV_EXTENSION
                         /\ ~(IF m.dirs = <<>> THEN FALSE
                              ELSE m.dirs[1] = MACOS_METADATA_DIR))

\* process_zip_bytes: one iteration of `for csv_filename in csv_files`, as
\* the entries it appends to raw_csv_data (source: the member, for
\* reference).
MemberEntry(m) ==
    IF m.base[1] = AUDITOR_REPORT_PREFIX THEN <<>>
    ELSE IF ~m.readable THEN <<>>
    ELSE LET csv_records == read_csv_from_bytes(m.bytes)
         IN  IF csv_records.kind = "records"
             THEN << [filename |-> m.base, source |-> m,
                      data |-> csv_records.records] >>
             ELSE <<>>

RECURSIVE ExtractUntilFailure(_)
\* The loop ended by the first member that cannot be read or decoded.
ExtractUntilFailure(listed) ==
    IF listed = <<>> THEN <<>>
    ELSE IF MemberEntry(Head(listed)) = <<>>
              /\ Head(listed).base[1] # AUDITOR_REPORT_PREFIX
         THEN <<>>
         ELSE MemberEntry(Head(listed)) \o ExtractUntilFailure(Tail(listed))

RECURSIVE ExtractEntries(_)
\* process_zip_bytes: the loop over csv_files.
ExtractEntries(listed) ==
    IF listed = <<>> THEN <<>>
    ELSE MemberEntry(Head(listed)) \o ExtractEntries(Tail(listed))

\* The dispatch table without the semi-annual report.
processor_map_without_160 == ("180" :> "ExtraordinaryReportProcessor")

processor_map ==
    ("180" :> "ExtraordinaryReportProcessor")
      @@ ("160" :> "SemiAnnualReportProcessor")

default_processor == "GenericReportProcessor"

\* What a call of the processing functions ends with.
NoData == [processor |-> None, doc_id |-> None, doc_type_code |-> None]
ReturnsNone == [kind |-> "None", data |-> NoData, exc |-> None]
ReturnsData(data) == [kind |-> "structured", data |-> data, exc |-> None]
RaisesError(exc) == [kind |-> "raise", data |-> NoData, exc |-> exc]

\* process_structured_data_from_raw_csv: processor_map.get(doc_type_code,
\* default_processor), then, inside ErrorContext(reraise=False),
\* processor_class(raw_csv_data, doc_id, doc_type_code).process().  The
\* process of the Extraordinary and Generic processors is a static method of
\* three required parameters: called without arguments it raises TypeError,
\* which the context suppresses, and the function returns None.
process_structured_data_from_raw_csv(raw_csv_data, doc_id, doc_type_code) ==
    LET processor_class ==
            IF doc_type_code \in DOMAIN processor_map
            THEN processor_map[doc_type_code] ELSE default_processor
    IN  [ran |-> <<processor_class>>,
         out |-> IF processor_class = "SemiAnnualReportProcessor"
                 THEN ReturnsData([processor |-> processor_class,
                                   doc_id |-> doc_id,
                                   doc_type_code |-> doc_type_code])
                 ELSE ReturnsNone]

\* The handlers of process_zip_bytes with the error passed on.
OnExtractionErrorRaise(exc) == RaisesError(exc)

\* process_zip_bytes: `except zipfile.BadZipFile`, `except Exception`: the
\* error is logged and None is returned.
OnExtractionError(exc) == ReturnsNone

\* BaseDocumentProcessor.process_zip_bytes(zip_bytes, doc_id, doc_type_code)
process_zip_bytes(zip_bytes, doc_id, doc_type_code) ==
    LET listed == IF zip_bytes.readable THEN csv_files(zip_bytes) ELSE <<>>
        raw_csv_data == ExtractEntries(listed)
        dispatched == process_structured_data_from_raw_csv(raw_csv_data, doc_id,
                                                           doc_type_code)
    IN  IF ~zip_bytes.readable
        THEN [csv_files |-> <<>>, raw_csv_data |-> <<>>, ran |-> <<>>,
              out |-> OnExtractionError("BadZipFile")]
        ELSE IF listed = <<>>
        THEN [csv_files |-> listed, raw_csv_data |-> <<>>, ran |-> <<>>,
              out |-> ReturnsNone]
        ELSE IF raw_csv_data = <<>>
        THEN [csv_files |-> listed, raw_csv_data |-> <<>>, ran |-> <<>>,
              out |-> ReturnsNone]
        ELSE [csv_files |-> listed, raw_csv_data |-> raw_csv_data,
              ran |-> dispatched.ran, out |-> dispatched.out]

(* ----------------------- extraction from a file ------------------------ *)
\* What chardet.detect answers for each member of an archive, extracted.
DetectFns(zip) ==
    LET contents == {zip.members[i].bytes : i \in DOMAIN zip.members}
    IN  {f \in [contents -> {None, "UTF-16", "ascii", "SHIFT_JIS"}] :
            \A b \in contents : f[b] \in Guesses(b)}

\* process_zip_file: os.walk over the extracted tree, every directory named
\* __MACOSX removed from the walk, the files ending in .csv kept.
csv_file_paths(zip) ==
    SelectSeq(zip.members,
              LAMBDA m : /\ m.base[3] = CSV_EXTENSION
                         /\ \A i \in DOMAIN m.dirs : m.dirs[i] # MACOS_METADATA_DIR)

\* process_zip_file: one iteration of `for file_path in csv_file_paths`.
FileEntry(m, detect) ==
    IF m.base[1] = AUDITOR_REPORT_PREFIX THEN <<>>
    ELSE LET csv_records == read_csv_file(m.bytes, TRUE, detect[m.bytes])
         IN  IF csv_records.kind = "records"
             THEN << [filename |-> m.base, source |-> m,
                      data |-> csv_records.records] >>
             ELSE <<>>

RECURSIVE FileEntries(_, _)
FileEntries(listed, detect) ==
    IF listed = <<>> THEN <<>>
    ELSE FileEntry(Head(listed), detect) \o FileEntries(Tail(listed), detect)

\* BaseDocumentProcessor.process_zip_file(path_to_zip_file, doc_id,
\* doc_type_code) on a file of the given content: extractall raises on a
\* file that is no ZIP container and on a member that cannot be read, and
\* None is returned.
process_zip_file(zip, doc_id, doc_type_code, detect) ==
    LET extracted == /\ zip.readable
                     /\ \A i \in DOMAIN zip.members : zip.members[i].readable
        listed == IF extracted THEN csv_file_paths(zip) ELSE <<>>
        raw_csv_data == FileEntries(listed, detect)
        dispatched == process_structured_data_from_raw_csv(raw_csv_data, doc_id,
                                                           doc_type_code)
    IN  IF ~extracted \/ listed = <<>> \/ raw_csv_data = <<>>
        THEN [csv_files |-> listed, raw_csv_data |-> <<>>, ran |-> <<>>,
              out |-> ReturnsNone]
        ELSE [csv_files |-> listed, raw_csv_data |-> raw_csv_data,
              ran |-> dispatched.ran, out |-> dispatched.out]

\* The document type codes of the calls: the two with a processor of their
\* own, another supported one, an unknown one, the empty string, None.
DocTypeCodes == {"180", "160", "120", "999", "", None}

\* BaseProcessor.zip_bytes_to_filing(zip_bytes, filing_metadata): the ZIP's
\* surviving members as a Filing (kind "Filing") or null (kind "None").
NoFiling == [kind |-> "None", metadata |-> F1, files |-> <<>>, exc |-> None]
zip_bytes_to_filing(zip_bytes, filing_metadata) ==
    LET under_macos(m) == \E i \in DOMAIN m.dirs : m.dirs[i] = MACOS_METADATA_DIR
        survivors == SelectSeq(zip_bytes.members,
                               LAMBDA m : /\ m.base[3] = CSV_EXTENSION
                                          /\ ~under_macos(m))
        listed == ExtractEntries(survivors)
    IN  IF ~zip_bytes.readable \/ listed = <<>> THEN NoFiling
        ELSE [kind |-> "Filing", metadata |-> filing_metadata, files |-> listed,
              exc |-> None]

\* The archives a downloaded body may be: a JSON body or no bytes are no
\* ZIP container; other bytes may be one.
ZipsOf(body) ==
    IF body.shape = "notjson"
    THEN {NotAZip,
          Zip(<< CHOOSE m \in Members : m.base = <<"", "a", ".csv">> >>),
          Zip(<< CHOOSE m \in Members : m.base[1] = AUDITOR_REPORT_PREFIX >>)}
    ELSE {NotAZip}

VARIABLES
    proc    \* the processing call made last: function, arguments, result

procVars == <<proc>>

NoProc == [fn |-> "none"]

ProcInit == proc = NoProc

\* read_csv_from_bytes is called (detected: what the detector would answer).
CallReadCsvFromBytes ==
    /\ proc = NoProc
    /\ \E b \in CsvByteStrings : \E g \in Guesses(b) :
        proc' = [fn |-> "read_csv_from_bytes", csv_bytes |-> b, readable |-> TRUE,
                 detected |-> g, out |-> read_csv_from_bytes(b)]

\* read_csv_file is called on a file of some content; a file that cannot be
\* opened has no detected encoding (`except OSError`).
CallReadCsvFile ==
    /\ proc = NoProc
    /\ \E b \in CsvByteStrings, readable \in BOOLEAN : \E g \in Guesses(b) :
        LET detected == IF readable THEN g ELSE None IN
        proc' = [fn |-> "read_csv_file", csv_bytes |-> b, readable |-> readable,
                 detected |-> detected,
                 out |-> read_csv_file(b, readable, detected)]

\* process_zip_bytes is called.
CallProcessZipBytes ==
    /\ proc = NoProc
    /\ \E z \in Zips, c \in DocTypeCodes :
        LET r == process_zip_bytes(z, "S1", c) IN
        proc' = [fn |-> "process_zip_bytes", zip_bytes |-> z, doc_type_code |-> c,
                 csv_files |-> r.csv_files, raw_csv_data |-> r.raw_csv_data,
                 ran |-> r.ran, out |-> r.out]

\* process_structured_data_from_raw_csv is called.
CallProcessStructuredData ==
    /\ proc = NoProc
    /\ \E z \in Zips, c \in DocTypeCodes :
        LET raw == ExtractEntries(z.members)
            r == process_structured_data_from_raw_csv(raw, "S1", c) IN
        proc' = [fn |-> "process_structured_data_from_raw_csv",
                 raw_csv_data |-> raw, doc_type_code |-> c,
                 ran |-> r.ran, out |-> r.out]

\* process_zip_file is called on a file holding the bytes of an archive.
CallProcessZipFile ==
    /\ proc = NoProc
    /\ \E z \in Zips, c \in DocTypeCodes : \E detect \in DetectFns(z) :
        LET r == process_zip_file(z, "S1", c, detect) IN
        proc' = [fn |-> "process_zip_file", zip_bytes |-> z, doc_type_code |-> c,
                 csv_files |-> r.csv_files, raw_csv_data |-> r.raw_csv_data,
                 ran |-> r.ran, out |-> r.out]

\* The call made last has returned to its caller.
ProcessReturn ==
    /\ proc.fn \in {"read_csv_from_bytes", "read_csv_file", "process_zip_bytes",
                    "process_zip_file", "process_structured_data_from_raw_csv"}
    /\ proc' = NoProc

\* get_filing is called: get_zip_bytes(filing_metadata).
CallGetFiling ==
    /\ pc = "idle"
    /\ \E f \in {F1, F2} :
          proc' = [fn |-> "get_filing", filing_metadata |-> f, out |-> NoFiling,
                   ended |-> FALSE]
    /\ op' = [NoOp EXCEPT !.name = "get_zip_bytes"]
    /\ attempt' = 0
    /\ return_content' = TRUE
    /\ resps' = <<>>
    /\ sleeps' = 0
    /\ fetchOut' = NoFetch
    /\ outcome' = NoOutcome
    /\ pc' = "request"
    /\ UNCHANGED <<max_retries, current_date, matching_docs, fetchedDates, served>>

\* get_filing after get_zip_bytes: its bytes go to zip_bytes_to_filing, whose
\* result is returned; EdinetConnectionError and EdinetRetryExceededError are
\* raised again as EdinetDocumentFetchError; any other error propagates.
GetFilingHandle ==
    /\ pc = "done"
    /\ proc.fn = "get_filing"
    /\ op.name = "get_zip_bytes"
    /\ \/ /\ outcome.kind = "raise"
          /\ proc' = [proc EXCEPT
                        !.ended = TRUE,
                        !.out = [NoFiling EXCEPT
                                   !.kind = "raise",
                                   !.exc = IF outcome.exc \in {"EdinetConnectionError",
                                                               "EdinetRetryExceededError"}
                                           THEN "EdinetDocumentFetchError"
                                           ELSE outcome.exc]]
       \/ /\ outcome.kind = "return"
          /\ \E z \in ZipsOf(outcome.value[1]) :
                proc' = [proc EXCEPT
                           !.ended = TRUE,
                           !.out = zip_bytes_to_filing(z, proc.filing_metadata)]
    /\ pc' = "filing_done"
    /\ UNCHANGED fetchData

(* ------------------------ the document processors ---------------------- *)
\* the record lists handed to the lookups have at most MaxRecords records
MaxRecords == 2

\* A row of a filing's CSV: element_id is the element-ID column, context_id
\* the context-ID column, value the value column and item_name the item-name
\* column (a cell is a string, or None for an empty cell).
Record(element_id, context_id, value, item_name) ==
    [element_id |-> element_id, context_id |-> context_id, value |-> value,
     item_name |-> item_name]

\* The item name that get_all_text_blocks searches for (reason for
\* submission, written in Latin letters here), and another one.
REASON_ITEM == "teishutsu-riyuu"
OTHER_ITEM == "keijou-rieki"

\* The parts of the strings that are searched for a substring.
Words ==
    ("jpcrp_cor:OrdinaryIncome" :> <<"jpcrp_cor:", "OrdinaryIncome">>)
    @@ ("jpdei_cor:EDINETCodeDEI" :> <<"jpdei_cor:", "EDINETCodeDEI">>)
    @@ ("jpcrp_cor:BusinessRisksTextBlock"
          :> <<"jpcrp_cor:", "BusinessRisks", "TextBlock">>)
    @@ ("jpcrp_cor:DescriptionOfBusinessTextBlock"
          :> <<"jpcrp_cor:", "DescriptionOfBusiness", "TextBlock">>)
    @@ ("jpcrp_cor:NotesTextBlock" :> <<"jpcrp_cor:", "Notes", "TextBlock">>)
    @@ ("jpcrp-esr_cor:ReasonForFiling" :> <<"jpcrp-esr_cor:", "ReasonForFiling">>)
    @@ ("CurrentYTDDuration" :> <<"Current", "YTDDuration">>)
    @@ ("Prior1YTDDuration" :> <<"Prior", "1YTDDuration">>)
    @@ (REASON_ITEM :> <<REASON_ITEM>>)
    @@ (OTHER_ITEM :> <<OTHER_ITEM>>)

\* Python's `needle in hay` for a needle that is one part, or empty.
Has(hay, needle) ==
    needle = "" \/ \E i \in DOMAIN Words[hay] : Words[hay][i] = needle

\* Python's truth value of a cell: neither None nor the empty string.
Truthy(x) == x # None /\ x # ""

\* clean_text(text): full-width spaces replaced, runs of whitespace turned
\* into one space, the ends stripped; None stays None.
clean_text(text) ==
    CASE text = None -> None
      [] text = " 100" -> "100"
      [] text = "risks  text" -> "risks text"
      [] OTHER -> text

\* Record lists for the lookups by element ID and context.
LookupRecords ==
    {Record(e, c, v, OTHER_ITEM) :
        e \in {"jpcrp_cor:OrdinaryIncome", "jpcrp_cor:BusinessRisksTextBlock"},
        c \in {None, "", "CurrentYTDDuration", "Prior1YTDDuration"},
        v \in {None, "100", " 100"}}

\* Records for the extraction of text blocks.
BlockRecords ==
    {Record(e, None, v, n) :
        e \in {None, "jpcrp_cor:OrdinaryIncome", "jpcrp_cor:BusinessRisksTextBlock",
               "jpcrp_cor:NotesTextBlock", "jpcrp-esr_cor:ReasonForFiling"},
        v \in {None, "", "risks  text"},
        n \in {None, REASON_ITEM, OTHER_ITEM}}

\* The rows of filings handed to the processors.
ProcessorRecords ==
    {Record("jpcrp_cor:OrdinaryIncome", "CurrentYTDDuration", "100", OTHER_ITEM),
     Record("jpcrp_cor:OrdinaryIncome", "CurrentYTDDuration", None, OTHER_ITEM),
     Record("jpcrp_cor:OrdinaryIncome", "Prior1YTDDuration", " 100", OTHER_ITEM),
     Record("jpcrp_cor:OrdinaryIncome", None, "100", None),
     Record("jpdei_cor:EDINETCodeDEI", None, "E1", OTHER_ITEM),
     Record("jpcrp_cor:BusinessRisksTextBlock", None, "risks  text", OTHER_ITEM),
     Record("jpcrp_cor:BusinessRisksTextBlock", None, None, OTHER_ITEM),
     Record("jpcrp_cor:DescriptionOfBusinessTextBlock", None, "100", OTHER_ITEM),
     Record("jpcrp_cor:NotesTextBlock", None, "100", OTHER_ITEM),
     Record("jpcrp-esr_cor:ReasonForFiling", None, "100", REASON_ITEM)}

ListsOf(S) == UNION {[1..n -> S] : n \in 0..MaxRecords}

Min(S) == CHOOSE i \in S : \A j \in S : i <= j
Max(S) == CHOOSE i \in S : \A j \in S : i >= j

\* The records get_value_by_id compares equal to its arguments.
IdMatches(all_records, element_id, context_filter) ==
    {i \in DOMAIN all_records :
        /\ all_records[i].element_id = element_id
        /\ \/ context_filter = None
           \/ /\ Truthy(all_records[i].context_id)
              /\ Has(all_records[i].context_id, context_filter)}

\* Which of the matching records the lookup answers with, were it the last.
PickLast(hits) == Max(hits)

\* get_value_by_id returns inside its loop, at the first matching record.
Pick(hits) == Min(hits)

\* get_value_by_id(element_id, context_filter)
get_value_by_id(all_records, element_id, context_filter) ==
    LET hits == IdMatches(all_records, element_id, context_filter)
    IN  IF hits = {} THEN None
        ELSE clean_text(all_records[Pick(hits)].value)

\* What the test of one record in get_all_text_blocks does: "block",
\* "skip", or "TypeError" (`<reason> in item_name` with item_name None).
BlockTest(record) ==
    LET e == record.element_id IN
    IF Truthy(e) /\ Has(e, "TextBlock") /\ Truthy(record.value) THEN "block"
    ELSE IF ~Truthy(e) THEN "skip"
    ELSE IF Has(e, "ReasonForFiling")
         THEN IF Truthy(record.value) THEN "block" ELSE "skip"
    ELSE IF record.item_name = None THEN "TypeError"
    ELSE IF Has(record.item_name, REASON_ITEM) /\ Truthy(record.value) THEN "block"
    ELSE "skip"

TextBlock(record) ==
    [id |-> record.element_id, title |-> record.item_name,
     content |-> record.value]

Blocks(blocks) == [kind |-> "list", blocks |-> blocks, exc |-> None]
BlocksRaise(exc) == [kind |-> "raise", blocks |-> <<>>, exc |-> exc]

RECURSIVE BlocksFrom(_, _, _)
BlocksFrom(all_records, k, text_blocks) ==
    IF k > Len(all_records) THEN Blocks(text_blocks)
    ELSE LET t == BlockTest(all_records[k]) IN
         CASE t = "TypeError" -> BlocksRaise("TypeError")
           [] t = "block" ->
                BlocksFrom(all_records, k + 1,
                           Append(text_blocks, TextBlock(all_records[k])))
           [] OTHER -> BlocksFrom(all_records, k + 1, text_blocks)

\* get_all_text_blocks()
get_all_text_blocks(all_records) == BlocksFrom(all_records, 1, <<>>)

\* XBRL_ELEMENT_IDS with the metadata key of each, in the order of id_to_key.
XBRL_ELEMENT_IDS ==
    << <<"jpdei_cor:EDINETCodeDEI", "edinet_code">>,
       <<"jpdei_cor:FilerNameInJapaneseDEI", "company_name_ja">>,
       <<"jpdei_cor:FilerNameInEnglishDEI", "company_name_en">>,
       <<"jpdei_cor:DocumentTypeDEI", "document_type">>,
       <<"jpcrp-esr_cor:DocumentTitleCoverPage", "document_title">>,
       <<"jpcrp_cor:DocumentTitle", "document_title">> >>

\* A dict without keys.
EmptyDict == [k \in {} |-> None]

RECURSIVE CommonFrom(_, _)
\* The metadata after the first k element IDs: a later ID of the same key
\* overwrites the earlier one.
CommonFrom(all_records, k) ==
    IF k = 0 THEN EmptyDict
    ELSE LET value == get_value_by_id(all_records, XBRL_ELEMENT_IDS[k][1], None)
         IN  IF value # None
             THEN (XBRL_ELEMENT_IDS[k][2] :> clean_text(value))
                    @@ CommonFrom(all_records, k - 1)
             ELSE CommonFrom(all_records, k - 1)

\* _get_common_metadata(): the values found, then doc_id and doc_type_code.
get_common_metadata(all_records, doc_id, doc_type_code) ==
    ("doc_id" :> doc_id) @@ ("doc_type_code" :> doc_type_code)
      @@ CommonFrom(all_records, Len(XBRL_ELEMENT_IDS))

\* What a processor's `process` ends with.
Structured(data) == [kind |-> "structured", data |-> data, exc |-> None]
ProcessRaises(exc) == [kind |-> "raise", data |-> EmptyDict, exc |-> exc]

\* GenericReportProcessor.process
GenericProcess(all_records, doc_id, doc_type_code) ==
    LET blocks == get_all_text_blocks(all_records) IN
    IF blocks.kind = "raise" THEN ProcessRaises(blocks.exc)
    ELSE Structured(("key_facts" :> EmptyDict) @@ ("financial_tables" :> <<>>)
                      @@ ("text_blocks" :> blocks.blocks)
                      @@ get_common_metadata(all_records, doc_id, doc_type_code))

\* EXTRAORDINARY_REPORT_ELEMENT_IDS, each with the fact key its name is
\* cleaned to (the part after ":" without Description, SummaryOf, DetailsOf,
\* RationaleFor; ImpactOnBusinessResults becomes ImpactOnResults).
EXTRAORDINARY_REPORT_ELEMENT_IDS ==
    << <<"jpcrp-esr_cor:ResolutionOfBoardOfDirectorsDescription",
         "ResolutionOfBoardOfDirectors">>,
       <<"jpcrp-esr_cor:SummaryOfReasonForSubmissionDescription",
         "ReasonForSubmission">>,
       <<"jpcrp-esr_cor:ContentOfDecisionsDescription", "ContentOfDecisions">>,
       <<"jpcrp-esr_cor:DateOfResolutionOfBoardOfDirectors",
         "DateOfResolutionOfBoardOfDirectors">>,
       <<"jpcrp-esr_cor:DateOfOccurrence", "DateOfOccurrence">>,
       <<"jpcrp-esr_cor:SummaryOfAgreementDescription", "Agreement">>,
       <<"jpcrp-esr_cor:DetailsOfTransactionPartiesDescription",
         "TransactionParties">>,
       <<"jpcrp-esr_cor:RationaleForTransactionDescription", "Transaction">>,
       <<"jpcrp-esr_cor:ImpactOnBusinessResultsDescription", "ImpactOnResults">> >>

RECURSIVE ExtraordinaryFacts(_, _)
ExtraordinaryFacts(all_records, k) ==
    IF k = 0 THEN EmptyDict
    ELSE LET value == get_value_by_id(all_records,
                                      EXTRAORDINARY_REPORT_ELEMENT_IDS[k][1], None)
         IN  IF value # None
             THEN (EXTRAORDINARY_REPORT_ELEMENT_IDS[k][2] :> value)
                    @@ ExtraordinaryFacts(all_records, k - 1)
             ELSE ExtraordinaryFacts(all_records, k - 1)

\* ExtraordinaryReportProcessor.process: key_facts and text_blocks are set,
\* financial_tables is not.
ExtraordinaryProcess(all_records, doc_id, doc_type_code) ==
    LET blocks == get_all_text_blocks(all_records) IN
    IF blocks.kind = "raise" THEN ProcessRaises(blocks.exc)
    ELSE Structured(("key_facts"
                       :> ExtraordinaryFacts(all_records,
                                             Len(EXTRAORDINARY_REPORT_ELEMENT_IDS)))
                      @@ ("text_blocks" :> blocks.blocks)
                      @@ get_common_metadata(all_records, doc_id, doc_type_code))

\* key_metrics_map of the SemiAnnual processor, in its order.
key_metrics_map ==
    << <<"jpcrp_cor:OperatingRevenue1SummaryOfBusinessResults", "OperatingRevenue">>,
       <<"jpcrp_cor:OrdinaryIncome", "OrdinaryIncome">>,
       <<"jppfs_cor:ProfitLossAttributableToOwnersOfParent", "NetIncome">>,
       <<"jpcrp_cor:BasicEarningsLossPerShareSummaryOfBusinessResults", "EPS">>,
       <<"jpcrp_cor:NetAssetsSummaryOfBusinessResults", "NetAssets">>,
       <<"jpcrp_cor:TotalAssetsSummaryOfBusinessResults", "TotalAssets">>,
       <<"jpcrp_cor:CashAndCashEquivalentsSummaryOfBusinessResults",
         "CashAndCashEquivalents">> >>

\* The test that a metric is added, were it on the current value alone.
FactAddedOnCurrent(current_value, prior_value) == current_value # None

\* `if current_value is not None or prior_value is not None`
FactAdded(current_value, prior_value) ==
    current_value # None \/ prior_value # None

RECURSIVE KeyFacts(_, _)
KeyFacts(all_records, k) ==
    IF k = 0 THEN EmptyDict
    ELSE LET current_value ==
                 get_value_by_id(all_records, key_metrics_map[k][1], "Current")
             prior_value ==
                 get_value_by_id(all_records, key_metrics_map[k][1], "Prior")
         IN  IF FactAdded(current_value, prior_value)
             THEN (key_metrics_map[k][2]
                     :> [current |-> current_value, prior |-> prior_value])
                    @@ KeyFacts(all_records, k - 1)
             ELSE KeyFacts(all_records, k - 1)

\* financial_tables_map of the SemiAnnual processor.
financial_tables_map ==
    << <<"jpigp_cor:CondensedQuarterlyConsolidatedStatementOfFinancialPositionIFRSTextBlock",
         "Consolidated Statement of Financial Position">>,
       <<"jpigp_cor:CondensedYearToQuarterEndConsolidatedStatementOfProfitOrLossIFRSTextBlock",
         "Consolidated Statement of Profit or Loss">> >>

\* text_block_elements of the SemiAnnual processor, in its order.
text_block_elements ==
    << <<"jpcrp_cor:BusinessResultsOfGroupTextBlock", "Group Business Results">>,
       <<"jpcrp_cor:DescriptionOfBusinessTextBlock", "Description of Business">>,
       <<"jpcrp_cor:BusinessRisksTextBlock", "Business Risks">>,
       <<"jpcrp_cor:ManagementAnalysisOfFinancialPositionOperatingResultsAndCashFlowsTextBlock",
         "Management Analysis">>,
       <<"jpcrp_cor:MajorShareholdersTextBlock", "Major Shareholders">>,
       <<"jpigp_cor:NotesSegmentInformationCondensedQuarterlyConsolidatedFinancialStatementsIFRSTextBlock",
         "Segment Information Notes">> >>

RECURSIVE FinancialTables(_, _)
FinancialTables(all_records, k) ==
    IF k = 0 THEN <<>>
    ELSE LET table_text_block ==
                 get_value_by_id(all_records, financial_tables_map[k][1], None)
             before == FinancialTables(all_records, k - 1)
         IN  IF Truthy(table_text_block)
             THEN Append(before, [title_en |-> financial_tables_map[k][2],
                                  raw_text_content |-> table_text_block])
             ELSE before

RECURSIVE CuratedBlocks(_, _)
CuratedBlocks(all_records, k) ==
    IF k = 0 THEN <<>>
    ELSE LET content == get_value_by_id(all_records, text_block_elements[k][1], None)
             before == CuratedBlocks(all_records, k - 1)
         IN  IF Truthy(content)
             THEN Append(before, [id |-> text_block_elements[k][1],
                                  title_en |-> text_block_elements[k][2],
                                  content_jp |-> content])
             ELSE before

\* The fallback of the SemiAnnual processor, were it taken every time.
FallbackAlways(curated) == TRUE

\* `if not structured_data["text_blocks"]`
Fallback(curated) == curated = <<>>

\* SemiAnnualReportProcessor.process
SemiAnnualProcess(all_records, doc_id, doc_type_code) ==
    LET curated == CuratedBlocks(all_records, Len(text_block_elements))
        blocks == IF Fallback(curated) THEN get_all_text_blocks(all_records)
                  ELSE Blocks(curated)
    IN  IF blocks.kind = "raise" THEN ProcessRaises(blocks.exc)
        ELSE Structured(("key_facts" :> KeyFacts(all_records, Len(key_metrics_map)))
                          @@ ("financial_tables"
                                :> FinancialTables(all_records,
                                                   Len(financial_tables_map)))
                          @@ ("text_blocks" :> blocks.blocks)
                          @@ get_common_metadata(all_records, doc_id, doc_type_code))

Processors ==
    {"GenericReportProcessor", "ExtraordinaryReportProcessor",
     "SemiAnnualReportProcessor"}

\* processor.process() of a processor class on the rows of a filing.
Process(processor, all_records, doc_id, doc_type_code) ==
    CASE processor = "SemiAnnualReportProcessor" ->
            SemiAnnualProcess(all_records, doc_id, doc_type_code)
      [] processor = "ExtraordinaryReportProcessor" ->
            ExtraordinaryProcess(all_records, doc_id, doc_type_code)
      [] OTHER -> GenericProcess(all_records, doc_id, doc_type_code)

\* get_value_by_id is called.
CallGetValueById ==
    /\ proc = NoProc
    /\ \E all_records \in ListsOf(LookupRecords),
          element_id \in {"jpcrp_cor:OrdinaryIncome", "jpcrp_cor:NotesTextBlock"},
          context_filter \in {None, "", "Current", "Prior"} :
        proc' = [fn |-> "get_value_by_id", all_records |-> all_records,
                 element_id |-> element_id, context_filter |-> context_filter,
                 out |-> get_value_by_id(all_records, element_id, context_filter)]

\* get_all_text_blocks is called.
CallGetAllTextBlocks ==
    /\ proc = NoProc
    /\ \E all_records \in ListsOf(BlockRecords) :
        proc' = [fn |-> "get_all_text_blocks", all_records |-> all_records,
                 out |-> get_all_text_blocks(all_records)]

\* The `process` of a processor is called on the rows of a filing.
CallProcess ==
    /\ proc = NoProc
    /\ \E processor \in Processors, all_records \in ListsOf(ProcessorRecords),
          doc_type_code \in {"160", "180", "120"} :
        proc' = [fn |-> "process", processor |-> processor,
                 all_records |-> all_records, doc_type_code |-> doc_type_code,
                 out |-> Process(processor, all_records, "S1", doc_type_code)]

\* The call made last has returned to its caller.
ProcessorReturn ==
    /\ proc.fn \in {"get_value_by_id", "get_all_text_blocks", "process"}
    /\ proc' = NoProc

(* ------------------------------ the demo ------------------------------- *)
\* the demo analyses at most ANALYSIS_LIMIT documents
ANALYSIS_LIMIT == 1

F5 == Filing("S5", "E1", "1111", "X", "F0", "160", "AB")

\* What get_most_recent_documents hands to run_demo (document types 160 and
\* 180), and the archives download_documents may have left on disk.
DemoLists == { <<>>, <<F1, F2, F5>>, <<F2>>, <<F5, F1>> }
DemoZips ==
    {NotAZip,
     Zip(<< CHOOSE m \in Members : m.base = <<"", "a", ".csv">> >>),
     Zip(<< CHOOSE m \in Members : m.base[1] = AUDITOR_REPORT_PREFIX >>)}

\* The download directory after download_documents: a file for some of the
\* filings (a download may fail), and possibly one left by an earlier run.
DemoDirs(docs_metadata) ==
    LET names == {FileName(docs_metadata[i]) : i \in DOMAIN docs_metadata}
                    \cup {FileName(F4)}
    IN  UNION {[S -> DemoZips] : S \in SUBSET names}

\* run_demo with every listed filing kept.
docs_metadata_unfiltered(docs_metadata, processed_doc_ids) == docs_metadata

\* run_demo: [doc for doc in docs_metadata if doc.get("docID") in
\* processed_doc_ids]
docs_metadata_for_processed(docs_metadata, processed_doc_ids) ==
    SelectSeq(docs_metadata, LAMBDA doc : doc.docID \in processed_doc_ids)

\* run_demo: the doc_id values of the structured data.
processed_doc_ids(structured_document_data_list) ==
    {structured_document_data_list[i].doc_id :
        i \in DOMAIN structured_document_data_list}

\* run_demo: structured_data_map.get(doc_id); of two entries of one doc_id
\* the later one is kept.
structured_data_map(structured_document_data_list, doc_id) ==
    LET hits == {i \in DOMAIN structured_document_data_list :
                    structured_document_data_list[i].doc_id = doc_id}
    IN  IF hits = {} THEN None ELSE structured_document_data_list[Max(hits)]

\* run_demo is called: the filings found, and the directory as
\* download_documents left it.
DemoStart ==
    /\ proc = NoProc
    /\ \E docs_metadata \in DemoLists : \E dir \in DemoDirs(docs_metadata) :
        proc' = [fn |-> "run_demo", docs_metadata |-> docs_metadata, dir |-> dir,
                 pending |-> IF docs_metadata = <<>> THEN {} ELSE DOMAIN dir,
                 structured |-> <<>>, processed |-> <<>>, to_analyze |-> <<>>,
                 analyzed |-> <<>>,
                 at |-> IF docs_metadata = <<>> THEN "done" ELSE "processing"]

\* get_structured_data_from_zip_directory: one file of os.listdir; doc_id and
\* doc_type_code are the first two parts of its name.
DemoProcessFile ==
    /\ proc.fn = "run_demo"
    /\ proc.at = "processing"
    /\ \E filename \in proc.pending : \E detect \in DetectFns(proc.dir[filename]) :
        LET doc_id == filename[1]
            doc_type_code == filename[3]
            structured_data ==
                process_zip_file(proc.dir[filename], doc_id, doc_type_code, detect).out
            kept == /\ doc_type_code \in SUPPORTED_DOC_TYPES
                    /\ structured_data.kind = "structured"
        IN  proc' = [proc EXCEPT
                       !.pending = @ \ {filename},
                       !.structured = IF kept THEN Append(@, structured_data.data)
                                      ELSE @]

\* run_demo after the directory is processed: the filings with structured
\* data, and the first ANALYSIS_LIMIT of them.
DemoSelect ==
    /\ proc.fn = "run_demo"
    /\ proc.at = "processing"
    /\ proc.pending = {}
    /\ LET processed == docs_metadata_for_processed(proc.docs_metadata,
                                                    processed_doc_ids(proc.structured))
           num_to_analyze == IF ANALYSIS_LIMIT < Len(processed) THEN ANALYSIS_LIMIT
                             ELSE Len(processed)
       IN  proc' = [proc EXCEPT
                      !.processed = processed,
                      !.to_analyze = SubSeq(processed, 1, num_to_analyze),
                      !.at = IF processed = <<>> THEN "done" ELSE "analyze"]

\* run_demo: the analysis of the next filing; analyze_document_data is
\* called only with structured data.
DemoAnalyze ==
    /\ proc.fn = "run_demo"
    /\ proc.at = "analyze"
    /\ proc.to_analyze # <<>>
    /\ LET doc_meta == Head(proc.to_analyze)
           structured_data == structured_data_map(proc.structured, doc_meta.docID)
       IN  proc' = [proc EXCEPT
                      !.to_analyze = Tail(@),
                      !.analyzed = IF doc_meta.docID \notin processed_doc_ids(proc.structured)
                                   THEN @
                                   ELSE Append(@, [doc_id |-> doc_meta.docID,
                                                   structured_data |-> structured_data])]

\* run_demo has printed its results and returns.
DemoReturn ==
    /\ proc.fn = "run_demo"
    /\ \/ proc.at = "done"
       \/ proc.at = "analyze" /\ proc.to_analyze = <<>>
    /\ proc' = NoProc

vars == <<fetchVars, cacheVars, filterVars, recentVars, dlVars, procVars>>

FetchIdle ==
    /\ max_retries = 1
    /\ pc = "idle"
    /\ op = NoOp
    /\ current_date = 0
    /\ matching_docs = <<>>
    /\ attempt = 0
    /\ return_content = FALSE
    /\ resps = <<>>
    /\ sleeps = 0
    /\ fetchOut = NoFetch
    /\ fetchedDates = <<>>
    /\ served = <<>>
    /\ outcome = NoOutcome


Init == FetchInit /\ CacheInit /\ FilterInit /\ RecentInit /\ DownloadIdle /\ ProcInit

Next ==
    \/ CallListDocs /\ UNCHANGED <<cacheVars, filterVars, recentVars, dlVars, procVars>>
    \/ ListDocsFetch /\ UNCHANGED <<cacheVars, filterVars, recentVars, dlVars, procVars>>
    \/ ListDocsReturn /\ UNCHANGED <<cacheVars, filterVars, recentVars, dlVars, procVars>>
    \/ Attempt /\ UNCHANGED <<cacheVars, filterVars, recentVars, dlVars, procVars>>
    \/ RetryLoopEnds /\ UNCHANGED <<cacheVars, filterVars, recentVars, dlVars, procVars>>
    \/ ListDocsHandle /\ UNCHANGED <<cacheVars, filterVars, recentVars, dlVars, procVars>>
    \/ CallGetZipBytes /\ UNCHANGED <<cacheVars, filterVars, recentVars, dlVars, procVars>>
    \/ GetZipBytesHandle /\ UNCHANGED <<cacheVars, filterVars, recentVars, dlVars, procVars>>

Spec == Init /\ [][Next]_vars

(* The cache alone, from an empty cache directory. *)
CacheNext ==
    \/ set_json /\ UNCHANGED <<fetchVars, filterVars, recentVars, dlVars, procVars>>
    \/ set_binary /\ UNCHANGED <<fetchVars, filterVars, recentVars, dlVars, procVars>>
    \/ get_json_call /\ UNCHANGED <<fetchVars, filterVars, recentVars, dlVars, procVars>>
    \/ get_binary_call /\ UNCHANGED <<fetchVars, filterVars, recentVars, dlVars, procVars>>
    \/ Tick /\ UNCHANGED <<fetchVars, filterVars, recentVars, dlVars, procVars>>

CacheOnlyInit == FetchIdle /\ CacheInit /\ FilterInit /\ RecentInit /\ DownloadIdle /\ ProcInit

SpecCache == CacheOnlyInit /\ [][CacheNext]_vars

(* Cache reads over a cache directory found in any on-disk state. *)
JsonFileStates ==
    {NoFile} \cup
    {[exists |-> TRUE, content |-> c, mtime |-> 0, readable |-> r] :
        c \in {Text("object", <<"results">>), BadJson, NonUtf8}, r \in BOOLEAN}

BinFileStates ==
    {NoFile} \cup
    {[exists |-> TRUE, content |-> Text("bytes", d), mtime |-> 0, readable |-> r] :
        d \in ByteStrings, r \in BOOLEAN}

DiskInit ==
    /\ files \in [Paths -> JsonFileStates \cup BinFileStates]
    /\ \A k \in Keys : /\ files[get_cache_path(k, FALSE)] \in JsonFileStates
                        /\ files[get_cache_path(k, TRUE)] \in BinFileStates
    /\ now = 0
    /\ cacheOp = NoCall
    /\ lastSet = [p \in Paths |-> NeverSet]

DiskNext ==
    \/ get_json_call /\ UNCHANGED <<fetchVars, filterVars, recentVars, dlVars, procVars>>
    \/ get_binary_call /\ UNCHANGED <<fetchVars, filterVars, recentVars, dlVars, procVars>>
    \/ Tick /\ UNCHANGED <<fetchVars, filterVars, recentVars, dlVars, procVars>>

CacheDiskInit == FetchIdle /\ DiskInit /\ FilterInit /\ RecentInit /\ DownloadIdle /\ ProcInit

SpecCacheDisk == CacheDiskInit /\ [][DiskNext]_vars

(* The filters alone. *)
FilterNext ==
    \/ CallFilterFilings /\ UNCHANGED <<fetchVars, cacheVars, recentVars, dlVars, procVars>>
    \/ CallFilterDocuments /\ UNCHANGED <<fetchVars, cacheVars, recentVars, dlVars, procVars>>
    \/ FilterReturn /\ UNCHANGED <<fetchVars, cacheVars, recentVars, dlVars, procVars>>

FilterOnlyInit == FetchIdle /\ CacheInit /\ FilterInit /\ RecentInit /\ DownloadIdle /\ ProcInit

SpecFilter == FilterOnlyInit /\ [][FilterNext]_vars

(* The search for the most recent day with filings. *)
RecentNext ==
    \/ CallGetMostRecentDocuments /\ UNCHANGED <<cacheVars, filterVars, dlVars, procVars>>
    \/ RecentQuery /\ UNCHANGED <<cacheVars, filterVars, dlVars, procVars>>
    \/ RecentHandle /\ UNCHANGED <<cacheVars, filterVars, dlVars, procVars>>
    \/ RecentReturnNone /\ UNCHANGED <<cacheVars, filterVars, dlVars, procVars>>
    \/ ListDocsFetch /\ UNCHANGED <<cacheVars, filterVars, recentVars, dlVars, procVars>>
    \/ ListDocsReturn /\ UNCHANGED <<cacheVars, filterVars, recentVars, dlVars, procVars>>
    \/ Attempt /\ UNCHANGED <<cacheVars, filterVars, recentVars, dlVars, procVars>>
    \/ RetryLoopEnds /\ UNCHANGED <<cacheVars, filterVars, recentVars, dlVars, procVars>>
    \/ ListDocsHandle /\ UNCHANGED <<cacheVars, filterVars, recentVars, dlVars, procVars>>

RecentSearchInit == FetchInit /\ CacheInit /\ FilterInit /\ RecentInit /\ DownloadIdle /\ ProcInit

SpecRecent == RecentSearchInit /\ [][RecentNext]_vars
(* The batch download, over a target directory in any state. *)
DownloadNext ==
    \/ CallDownloadDocuments /\ UNCHANGED <<cacheVars, filterVars, recentVars, procVars>>
    \/ DownloadSkip /\ UNCHANGED <<cacheVars, filterVars, recentVars, procVars>>
    \/ DownloadFetch /\ UNCHANGED <<cacheVars, filterVars, recentVars, procVars>>
    \/ DownloadSave /\ UNCHANGED <<cacheVars, filterVars, recentVars, procVars>>
    \/ DownloadReturn /\ UNCHANGED <<cacheVars, filterVars, recentVars, procVars>>
    \/ DownloadAgain /\ UNCHANGED <<cacheVars, filterVars, recentVars, procVars>>
    \/ Attempt /\ UNCHANGED <<cacheVars, filterVars, recentVars, dlVars, procVars>>
    \/ RetryLoopEnds /\ UNCHANGED <<cacheVars, filterVars, recentVars, dlVars, procVars>>
    \/ GetZipBytesHandle /\ UNCHANGED <<cacheVars, filterVars, recentVars, dlVars, procVars>>

DownloadBatchInit ==
    FetchInit /\ CacheInit /\ FilterInit /\ RecentInit /\ DownloadInit /\ ProcInit

SpecDownload == DownloadBatchInit /\ [][DownloadNext]_vars

(* The decoder, the extraction and the dispatch, each call on its own. *)
ProcessNext ==
    \/ CallReadCsvFromBytes /\ UNCHANGED <<fetchVars, cacheVars, filterVars, recentVars, dlVars>>
    \/ CallReadCsvFile /\ UNCHANGED <<fetchVars, cacheVars, filterVars, recentVars, dlVars>>
    \/ CallProcessZipBytes /\ UNCHANGED <<fetchVars, cacheVars, filterVars, recentVars, dlVars>>
    \/ CallProcessZipFile /\ UNCHANGED <<fetchVars, cacheVars, filterVars, recentVars, dlVars>>
    \/ CallProcessStructuredData /\ UNCHANGED <<fetchVars, cacheVars, filterVars, recentVars, dlVars>>
    \/ ProcessReturn /\ UNCHANGED <<fetchVars, cacheVars, filterVars, recentVars, dlVars>>

ProcessInit == FetchIdle /\ CacheInit /\ FilterInit /\ RecentInit /\ DownloadIdle /\ ProcInit

SpecProcess == ProcessInit /\ [][ProcessNext]_vars

(* get_filing over the client's fetch. *)
FilingNext ==
    \/ CallGetFiling /\ UNCHANGED <<cacheVars, filterVars, recentVars, dlVars>>
    \/ GetFilingHandle /\ UNCHANGED <<cacheVars, filterVars, recentVars, dlVars>>
    \/ Attempt /\ UNCHANGED <<cacheVars, filterVars, recentVars, dlVars, procVars>>
    \/ RetryLoopEnds /\ UNCHANGED <<cacheVars, filterVars, recentVars, dlVars, procVars>>
    \/ GetZipBytesHandle /\ UNCHANGED <<cacheVars, filterVars, recentVars, dlVars, procVars>>

FilingInit == FetchInit /\ CacheInit /\ FilterInit /\ RecentInit /\ DownloadIdle /\ ProcInit

SpecFiling == FilingInit /\ [][FilingNext]_vars

(* The lookups and the processors, one call at a time. *)
ProcessorNext ==
    \/ CallGetValueById /\ UNCHANGED <<fetchVars, cacheVars, filterVars, recentVars, dlVars>>
    \/ CallGetAllTextBlocks /\ UNCHANGED <<fetchVars, cacheVars, filterVars, recentVars, dlVars>>
    \/ CallProcess /\ UNCHANGED <<fetchVars, cacheVars, filterVars, recentVars, dlVars>>
    \/ ProcessorReturn /\ UNCHANGED <<fetchVars, cacheVars, filterVars, recentVars, dlVars>>

ProcessorInit == FetchIdle /\ CacheInit /\ FilterInit /\ RecentInit /\ DownloadIdle /\ ProcInit

SpecProcessor == ProcessorInit /\ [][ProcessorNext]_vars

(* The demo: process the download directory, select, analyse. *)
DemoNext ==
    \/ DemoStart /\ UNCHANGED <<fetchVars, cacheVars, filterVars, recentVars, dlVars>>
    \/ DemoProcessFile /\ UNCHANGED <<fetchVars, cacheVars, filterVars, recentVars, dlVars>>
    \/ DemoSelect /\ UNCHANGED <<fetchVars, cacheVars, filterVars, recentVars, dlVars>>
    \/ DemoAnalyze /\ UNCHANGED <<fetchVars, cacheVars, filterVars, recentVars, dlVars>>
    \/ DemoReturn /\ UNCHANGED <<fetchVars, cacheVars, filterVars, recentVars, dlVars>>

DemoInit == FetchIdle /\ CacheInit /\ FilterInit /\ RecentInit /\ DownloadIdle /\ ProcInit

SpecDemo == DemoInit /\ [][DemoNext]_vars

(* ============================== claims ================================= *)

\* The dates of the inclusive range start_date..EndDate, ascending.
RangeDates(o) ==
    [i \in 1..(EndDate(o) - o.start_date + 1) |-> o.start_date + i - 1]

NoErrorServed == \A i \in DOMAIN served : served[i].kind # "error"

\* C1: an error-shaped response (no `results` key, only statusCode/message)
\* for a date of the range makes list_docs raise EdinetAuthenticationError at
\* that date: it is the last date fetched and no list is returned.
C1_ErrorResponseAborts ==
    \A i \in DOMAIN served :
        served[i].kind = "error" =>
            /\ i = Len(served)
            /\ Len(fetchedDates) = i
            /\ fetchedDates[i] = op.start_date + i - 1
            /\ pc = "done"
            /\ outcome = [kind |-> "raise", exc |-> "EdinetAuthenticationError",
                          value |-> <<>>]

\* C1 witness: a three-day range whose first day listed filings and whose
\* second day answered with an error-shaped body.
C1_Witness ==
    /\ op.name = "list_docs"
    /\ EndDate(op) = op.start_date + 2
    /\ Len(served) = 2
    /\ served[1].kind = "listed"
    /\ matching_docs # <<>>
    /\ served[2].kind = "error"
    /\ pc = "done"

\* C2: when no date yields an error-shaped response, list_docs fetches each
\* date of start..end exactly once, in ascending order - (end - start) + 1
\* fetches, one when end is omitted - also when dates fail at transport level.
C2_EachDateFetchedOnce ==
    op.name = "list_docs" =>
        /\ \A i \in DOMAIN fetchedDates : fetchedDates[i] = op.start_date + i - 1
        /\ (pc = "done" /\ NoErrorServed /\ op.start_date <= EndDate(op)) =>
              /\ fetchedDates = RangeDates(op)
              /\ Len(fetchedDates) = EndDate(op) - op.start_date + 1

\* C2 witness: a finished three-day range with a transport failure in it.
C2_Witness ==
    /\ op.name = "list_docs"
    /\ pc = "done"
    /\ NoErrorServed
    /\ Len(fetchedDates) = 3
    /\ served[2].kind = "failed"

\* C2 witness for the default: end_date omitted, one fetch.
C2_WitnessDefaultEnd ==
    /\ op.name = "list_docs"
    /\ op.end_date = NoDate
    /\ pc = "done"
    /\ Len(fetchedDates) = 1

\* C3: list_docs with start_date > end_date raises a validation error before
\* any request and does not return an empty list.
C3_InvalidRangeRaises ==
    (op.name = "list_docs" /\ op.end_date # NoDate
       /\ op.start_date > op.end_date /\ pc = "done") =>
        /\ outcome.kind = "raise"
        /\ outcome.exc \in {"ValidationError", "ValueError"}
        /\ fetchedDates = <<>>

RECURSIVE ExpectedDocs(_, _)
\* The filtered filings of the dates that were listed, in date order.
ExpectedDocs(s, f) ==
    IF s = <<>> THEN <<>>
    ELSE LET rest == ExpectedDocs(SubSeq(s, 1, Len(s) - 1), f)
             last == s[Len(s)]
         IN  IF last.kind = "listed"
             THEN rest \o filter_documents(last.results, f.edinet_codes,
                                          f.doc_type_codes,
                                          f.excluded_doc_type_codes,
                                          f.require_sec_code)
             ELSE rest

\* C4: a date whose fetch fails at transport level contributes nothing and
\* does not make list_docs raise: every date of the range is still fetched and
\* the returned list is the concatenation, in date order, of the filtered
\* filings of the dates that were listed, each in API response order.
C4_TransportFailureSkipsDate ==
    (op.name = "list_docs" /\ pc = "done" /\ NoErrorServed) =>
        /\ outcome.kind = "return"
        /\ outcome.value = ExpectedDocs(served, op.filters)
        /\ Len(served) = Len(RangeDates(op))

\* C4 witness: the first date failed at transport level, the two later dates
\* were fetched and listed, and filings of both are returned.
C4_Witness ==
    /\ op.name = "list_docs"
    /\ pc = "done"
    /\ Len(served) = 3
    /\ served[1].kind = "failed"
    /\ served[2] = [kind |-> "listed", results |-> <<F1, F2>>]
    /\ served[3] = [kind |-> "listed", results |-> <<F3, F4, F1>>]
    /\ outcome.kind = "return"
    /\ outcome.value = <<F1, F2, F4, F1>>

InRetryableRange(status) ==
    HTTP_CLIENT_ERROR_START <= status /\ status < HTTP_SERVER_ERROR_END

\* C5: in _make_request_with_retry a non-200 response is followed by another
\* request only if its status is in [400,600) and attempts remain; a non-200
\* response with a status outside [400,600), or on the last attempt, is not
\* followed by a request and makes the call raise.
C5_NonRetryableNeverRetried ==
    [][ (pc = "request" /\ Len(resps') = Len(resps) + 1) =>
          LET r == resps'[Len(resps')] IN
          (r.kind = "resp" /\ r.status # HTTP_SUCCESS) =>
             /\ (pc' = "request") =>
                   (InRetryableRange(r.status) /\ attempt < max_retries - 1)
             /\ (~InRetryableRange(r.status) \/ attempt = max_retries - 1) =>
                   (pc' = "returned" /\ fetchOut'.kind = "raise") ]_vars

AllNetErr == \A i \in DOMAIN resps : resps[i].kind = "neterr"

\* C6: with max_retries = N >= 0 and every attempt failing with a network or
\* timeout exception, the fetcher issues exactly N + 1 requests, sleeps once
\* between consecutive attempts (N sleeps) and then raises.
C6_RequestsAreRetriesPlusOne ==
    (pc = "returned" /\ AllNetErr) =>
        /\ fetchOut.kind = "raise"
        /\ Len(resps) = max_retries + 1
        /\ sleeps = max_retries

\* C7: when the attempts of a fetch are used up by network or timeout
\* exceptions, the error raised is EdinetRetryExceededError, never
\* EdinetConnectionError.
C7_ExhaustionRaisesRetryExceeded ==
    (pc = "returned" /\ fetchOut.kind = "raise" /\ AllNetErr /\ resps # <<>>) =>
        /\ fetchOut.exc = "EdinetRetryExceededError"
        /\ fetchOut.exc # "EdinetConnectionError"

\* C8: the fetcher returns a payload only from a response whose status is
\* exactly 200, and the first such response ends the call with its payload:
\* if it is attempt k, k requests and k - 1 sleeps have occurred.
C8_PayloadOnlyFrom200 ==
    /\ (pc = "returned" /\ fetchOut.kind = "return") =>
          /\ resps[Len(resps)].status = HTTP_SUCCESS
          /\ fetchOut.status = HTTP_SUCCESS
          /\ sleeps = Len(resps) - 1
    /\ \A i \in DOMAIN resps :
          (resps[i].kind = "resp" /\ resps[i].status = HTTP_SUCCESS
             /\ resps[i].readable) =>
              /\ i = Len(resps)
              /\ pc # "request"
              /\ fetchOut.kind = "return"

\* The cache call just made is a read; its path, and the set call behind it.
IsGet == cacheOp.name \in {"get_json", "get_binary"}
GetPath == get_cache_path(cacheOp.key, cacheOp.name = "get_binary")
GetAge == now - lastSet[GetPath].time

\* A value as JSON hands it back: a tuple comes back as a list.
AsJsonNative(v) == IF v.type = "tuple" THEN PyValue("list", v.items) ELSE v

\* C9 (as stated): a get after set(key, v) returns v while the entry's age is
\* <= ttl and a miss once the age exceeds ttl; a key never set is a miss, never
\* an error; for get_json/set_json and for get_binary/set_binary.
C9_GetReturnsSetValue ==
    IsGet =>
        /\ lastSet[GetPath].state = "never" => cacheOp.out = Miss
        /\ (lastSet[GetPath].state = "stored"
              /\ GetAge <= EffectiveTtl(cacheOp.ttl)) =>
                 cacheOp.out = Hit(lastSet[GetPath].value)
        /\ (lastSet[GetPath].state = "stored"
              /\ GetAge > EffectiveTtl(cacheOp.ttl)) => cacheOp.out = Miss

\* C9 (amended): the same, with the value returned by get_json being v as
\* JSON hands it back (v itself unless v holds a tuple, which is read back as
\* a list); get_binary returns the bytes unchanged.
C9_GetReturnsJsonRoundTrip ==
    IsGet =>
        /\ lastSet[GetPath].state = "never" => cacheOp.out = Miss
        /\ (lastSet[GetPath].state = "stored"
              /\ GetAge <= EffectiveTtl(cacheOp.ttl)) =>
                 cacheOp.out = Hit(AsJsonNative(lastSet[GetPath].value))
        /\ (lastSet[GetPath].state = "stored"
              /\ GetAge > EffectiveTtl(cacheOp.ttl)) => cacheOp.out = Miss

\* C9 witness: a get_json at the very end of the entry's life (age = ttl >= 1)
\* returns the stored value.
C9_Witness ==
    /\ cacheOp.name = "get_json"
    /\ lastSet[GetPath].state = "stored"
    /\ GetAge = EffectiveTtl(cacheOp.ttl)
    /\ GetAge >= 1
    /\ cacheOp.out.kind = "hit"

\* C10: get_json and get_binary never raise, whatever the on-disk state of
\* the entry: a missing, unreadable, truncated or malformed entry, or one that
\* is no UTF-8 text, is reported as a miss.
C10_ReadsNeverRaise ==
    IsGet =>
        /\ cacheOp.out.kind # "raise"
        /\ (\/ ~files[GetPath].exists
            \/ ~files[GetPath].readable
            \/ (cacheOp.name = "get_json"
                  /\ files[GetPath].content.form \in {"badjson", "nonutf8"})) =>
              cacheOp.out = Miss

\* The cache call just made is a write; its path.
IsSet == cacheOp.name \in {"set_json", "set_binary"}
SetPath == get_cache_path(cacheOp.key, cacheOp.name = "set_binary")

\* C11: set_json and set_binary never raise, for any value and any disk
\* condition: a failure to store is reported by returning False and a
\* completed store by returning True.
C11_WritesNeverRaise ==
    IsSet =>
        /\ cacheOp.out.kind \in {"True", "False"}
        /\ (cacheOp.out.kind = "True") <=> (lastSet[SetPath].state = "stored")

\* What get_json(k, ttl) and get_binary(k, ttl) would return from directory d.
JsonResult(d, k, ttl) == get_json(d[get_cache_path(k, FALSE)], ttl, now)
BinaryResult(d, k, ttl) == get_binary(d[get_cache_path(k, TRUE)], ttl, now)

\* C12: the JSON and binary caches are separate namespaces: for every key,
\* set_json(key, .) never changes the result of get_binary(key) and
\* set_binary(key, .) never changes the result of get_json(key); the two
\* entries of a key are stored as sha256(key).json and sha256(key).bin.
C12_SeparateNamespaces ==
    /\ [](\A k \in Keys :
            /\ get_cache_path(k, FALSE) = <<get_cache_key(k), ".json">>
            /\ get_cache_path(k, TRUE) = <<get_cache_key(k), ".bin">>)
    /\ [][ \A k \in Keys, ttl \in TtlArgs :
              /\ (cacheOp'.name = "set_json") =>
                    (BinaryResult(files', k, ttl) = BinaryResult(files, k, ttl))
              /\ (cacheOp'.name = "set_binary") =>
                    (JsonResult(files', k, ttl) = JsonResult(files, k, ttl)) ]_vars

\* C12 witness: a set_json has just stored under a key whose binary entry,
\* stored earlier, is still served; both files exist.
C12_Witness ==
    /\ cacheOp.name = "set_json"
    /\ cacheOp.out.kind = "True"
    /\ files[get_cache_path(cacheOp.key, FALSE)].exists
    /\ files[get_cache_path(cacheOp.key, TRUE)].exists
    /\ lastSet[get_cache_path(cacheOp.key, TRUE)].state = "stored"
    /\ lastSet[get_cache_path(cacheOp.key, TRUE)].time < now
    /\ BinaryResult(files, cacheOp.key, NoTtl)
          = Hit(lastSet[get_cache_path(cacheOp.key, TRUE)].value)

\* The cache key of the listing of day 0 (filings:{date}:{apiType}).
ListingKey == "filings:d0:2"

\* C13: the per-date listing fetch consults the cache under
\* filings:{date}:{apiType} before any HTTP request, and on a miss stores the
\* fetched body, success-shaped or error-shaped, so that a second request for
\* the date within the TTL is served from the cache.
C13_FetchGoesThroughCache ==
    (op.name = "list_docs" /\ current_date = 0) =>
        /\ (pc = "request" /\ resps # <<>>) =>
              /\ cacheOp.name = "get_json"
              /\ cacheOp.key = ListingKey
              /\ cacheOp.out = Miss
        /\ (pc = "returned" /\ fetchOut.kind = "return"
               /\ fetchOut.body.shape \in {"success", "error"}) =>
              /\ files[get_cache_path(ListingKey, FALSE)].exists
              /\ get_json(files[get_cache_path(ListingKey, FALSE)], NoTtl, now).kind
                    = "hit"

(* ------------------------- claims on the filters ------------------------ *)
\* The field each filter category is about.
CategoryField ==
    ("doc_ids" :> "docID") @@ ("edinet_codes" :> "edinetCode")
    @@ ("sec_codes" :> "secCode") @@ ("filer_names" :> "filerName")
    @@ ("form_codes" :> "formCode") @@ ("doc_type_codes" :> "docTypeCode")
    @@ ("doc_descriptions" :> "docDescription")

Categories == DOMAIN CategoryField

\* A category provides values: it is a non-empty list.
Provides(arg) == arg.given /\ arg.values # <<>>

\* The filing's field equals one of the values every providing category lists.
MatchesByEquality(filing, filters) ==
    \A c \in Categories :
        Provides(filters[c]) => InList(filing[CategoryField[c]], filters[c].values)

Supported(filing) == filing.docTypeCode \in SUPPORTED_DOC_TYPES

\* C14: filter_filings returns, in input order, exactly the filings whose
\* field, for every category with provided values, equals at least one
\* provided value (OR within a category, AND across categories); the
\* membership filters of _filter_documents select the same way.
C14_FilterByMembership ==
    /\ (filterCall.fn = "filter_filings"
          /\ \A c \in Categories : filterCall.filters[c].given
                                      => Provides(filterCall.filters[c])) =>
          LET match(f) == MatchesByEquality(f, filterCall.filters)
              matchSupported(f) == match(f) /\ Supported(f)
          IN  /\ filterCall.out.kind = "return"
              /\ \/ filterCall.out.value = SelectSeq(filterCall.all_filings, match)
                 \/ filterCall.out.value
                       = SelectSeq(filterCall.all_filings, matchSupported)
    /\ filterCall.fn = "_filter_documents" =>
          LET returned(f) == InList(f, filterCall.out.value) IN
          /\ filterCall.out.value = SelectSeq(filterCall.all_filings, returned)
          /\ \A i \in DOMAIN filterCall.out.value :
                LET f == filterCall.out.value[i] IN
                /\ filterCall.docFilters.edinet_codes # <<>> =>
                      InList(f.edinetCode, filterCall.docFilters.edinet_codes)
                /\ filterCall.docFilters.doc_type_codes # <<>> =>
                      InList(f.docTypeCode, filterCall.docFilters.doc_type_codes)

\* A filter set with every empty list replaced by None.
NullForEmpty(filters) ==
    [c \in DOMAIN filters |-> IF Provides(filters[c]) THEN filters[c] ELSE NoArg]

\* C15: a category with no provided values, null or an empty list, imposes
\* no restriction and never raises; with every category null or empty every
\* input filing of a supported type is returned, null fields included.
C15_EmptyCategoryMatchesAll ==
    /\ filterCall.fn = "filter_filings" =>
          /\ filterCall.out
                = filter_filings(filterCall.all_filings,
                                 NullForEmpty(filterCall.filters))
          /\ (\A c \in Categories : ~Provides(filterCall.filters[c])) =>
                /\ filterCall.out.kind = "return"
                /\ \A i \in DOMAIN filterCall.all_filings :
                      Supported(filterCall.all_filings[i]) =>
                          InList(filterCall.all_filings[i], filterCall.out.value)
    /\ (filterCall.fn = "_filter_documents"
          /\ filterCall.docFilters.edinet_codes = <<>>
          /\ filterCall.docFilters.doc_type_codes = <<>>
          /\ filterCall.docFilters.excluded_doc_type_codes = <<>>
          /\ ~filterCall.docFilters.require_sec_code) =>
          filterCall.out.value = SelectSeq(filterCall.all_filings, Supported)

\* C16: no filing whose docTypeCode is absent from SUPPORTED_DOC_TYPES is
\* returned by listing or filtering, whatever the filter arguments, also when
\* doc_type_codes lists that code; with all filters empty the result is the
\* input minus the filings of unsupported type.
C16_UnsupportedTypesDropped ==
    /\ (filterCall.fn # "none" /\ filterCall.out.kind = "return") =>
          \A i \in DOMAIN filterCall.out.value : Supported(filterCall.out.value[i])
    /\ (filterCall.fn = "filter_filings"
          /\ \A c \in Categories : ~filterCall.filters[c].given) =>
          filterCall.out = Returned(SelectSeq(filterCall.all_filings, Supported))
    /\ (outcome.kind = "return" /\ op.name = "list_docs") =>
          \A i \in DOMAIN outcome.value : Supported(outcome.value[i])

\* C17: the subtractive filters always win: no returned filing has a
\* docTypeCode in excluded_doc_type_codes, also when doc_type_codes lists the
\* code, and with require_sec_code no returned filing has a null secCode.
C17_SubtractiveFiltersWin ==
    filterCall.fn = "_filter_documents" =>
        \A i \in DOMAIN filterCall.out.value :
            LET f == filterCall.out.value[i] IN
            /\ ~InList(f.docTypeCode, filterCall.docFilters.excluded_doc_type_codes)
            /\ filterCall.docFilters.require_sec_code => f.secCode # None

\* C17 witness: a code is both listed and excluded, a filing of that type is
\* in the input and is dropped while another filing is returned.
C17_Witness ==
    /\ filterCall.fn = "_filter_documents"
    /\ \E i \in DOMAIN filterCall.all_filings :
          LET t == filterCall.all_filings[i].docTypeCode IN
          /\ InList(t, filterCall.docFilters.doc_type_codes)
          /\ InList(t, filterCall.docFilters.excluded_doc_type_codes)
          /\ ~InList(filterCall.all_filings[i], filterCall.out.value)
    /\ filterCall.out.value # <<>>

\* C17 witness for require_sec_code: a filing of a supported type with a null
\* secCode is in the input and is dropped.
C17_WitnessSecCode ==
    /\ filterCall.fn = "_filter_documents"
    /\ filterCall.docFilters.require_sec_code
    /\ \E i \in DOMAIN filterCall.all_filings :
          /\ filterCall.all_filings[i].secCode = None
          /\ Supported(filterCall.all_filings[i])
    /\ filterCall.out.value # <<>>

(* ------------------- claims on the recent-filings query ----------------- *)
\* today, today - 1, ..., today - n + 1
LastDays(today, n) == [i \in 1..n |-> today - i + 1]

\* C18: the recent-filings query with lookback N queries the inclusive range
\* [today - N + 1, today], exactly N dates, with the caller's filters; N <= 0
\* raises ValueError before any query.
C18_LookbackQueriesNDates ==
    recent.active =>
        /\ recent.days_back <= 0 =>
              /\ recent.queried = <<>>
              /\ pc = "recent_done" => recent.out.exc = "ValueError"
        /\ recent.days_back > 0 =>
              /\ \A i \in DOMAIN recent.queried :
                    /\ Today - recent.days_back + 1 <= recent.queried[i]
                    /\ recent.queried[i] <= Today
              /\ (pc = "recent_done" /\ recent.out.docs = <<>>) =>
                    recent.queried = LastDays(Today, recent.days_back)
        /\ (op.name = "list_docs") => op.filters = recent.filters

(* ----------------------- claims on the batch download ------------------- *)
\* C19: batch download issues no HTTP request for a filing whose destination
\* file {docId}-{docTypeCode}-{filerName}.zip already exists and leaves the
\* existing file unchanged; a second run over the same list issues no request
\* for a filing saved by the first run.
C19_ExistingFileSkipped ==
    dl.active =>
        /\ \A n \in FileNames :
              dl.dirAtStart[n].state # "absent" => target_dir[n] = dl.dirAtStart[n]
        /\ \A k \in DOMAIN dl.filing_metadatas :
              LET f == dl.filing_metadatas[k] IN
              (~MissingMetadata(f) /\ dl.dirAtStart[FileName(f)].state # "absent")
                  => f.docID \notin dl.requested
        /\ dl.requested \cap dl.savedBefore = {}
        /\ (pc \in {"request", "returned"}) =>
              target_dir[FileName(DownloadCurrent)].state = "absent"

\* C19 witness: the second run has ended; the first run saved a filing and
\* found another one already there, and the second run requested nothing.
C19_Witness ==
    /\ pc = "download_done"
    /\ dl.run = 2
    /\ dl.savedBefore # {}
    /\ \E n \in FileNames : target_dir[n].state = "old"
    /\ \E n \in FileNames : target_dir[n].state = "saved"
    /\ dl.requested = {}
    /\ Len(dl.log) = Len(dl.filing_metadatas)

\* C20: batch download processes every filing of the list in input order; a
\* failure for one filing never raises and never prevents the later filings
\* from being attempted; the call returns one result per input filing, in
\* input order, with status "success" or "error" accordingly.
C20_OneResultPerFiling ==
    /\ dl.active => \A k \in DOMAIN dl.log :
                       dl.log[k].docID = dl.filing_metadatas[k].docID
    /\ pc = "download_done" =>
          /\ Len(dl.log) = Len(dl.filing_metadatas)
          /\ dl.out.kind = "list"
          /\ Len(dl.out.results) = Len(dl.filing_metadatas)
          /\ \A k \in DOMAIN dl.out.results :
                /\ dl.out.results[k].docID = dl.filing_metadatas[k].docID
                /\ dl.log[k].event = "saved"
                      => dl.out.results[k].status = "success"
                /\ dl.log[k].event \in {"fetch_failed", "write_failed"}
                      => dl.out.results[k].status = "error"

C22_OnlyDocumentFetchError ==
    (pc = "done" /\ op.name = "get_zip_bytes") =>
        /\ outcome.kind = "raise" => outcome.exc = "EdinetDocumentFetchError"
        /\ outcome.kind = "return" =>
              /\ fetchOut.kind = "return"
              /\ fetchOut.body.shape # "empty"
              /\ outcome.value = <<fetchOut.body>>
        /\ (fetchOut.kind = "raise" \/ fetchOut.body.shape = "empty")
              => outcome.kind = "raise"

\* C23: get_filing returns None and does not raise when downloading the
\* filing's ZIP fails with EdinetDocumentFetchError; on a successful download
\* it returns a Filing whose metadata is the metadata passed in.
C23_GetFilingNoneOnFetchError ==
    (pc = "filing_done" /\ proc.fn = "get_filing") =>
        /\ (outcome.kind = "raise" /\ outcome.exc = "EdinetDocumentFetchError")
              => proc.out.kind = "None"
        /\ outcome.kind = "return" =>
              /\ proc.out.kind \in {"Filing", "None"}
              /\ proc.out.kind = "Filing"
                    => proc.out.metadata = proc.filing_metadata

(* --------------------- claims on the extraction ------------------------ *)
\* The records of a table, row by row, every cell as it is written.
RowsOf(t) ==
    [j \in DOMAIN t.rows |->
        [h \in {t.header[i] : i \in DOMAIN t.header} |->
            t.rows[j][CHOOSE i \in DOMAIN t.header : t.header[i] = h]]]

\* The member is read and decoded to records.
Decodes(m) == m.readable /\ read_csv_from_bytes(m.bytes).kind = "records"

\* C24: for any ZIP content, the files produced by extraction contain no
\* member whose basename starts with jpaud, no member located under a
\* __MACOSX directory at any depth of its path, and no member whose name does
\* not end in .csv (case-sensitive).
C24_ExtractedFilesFiltered ==
    proc.fn = "process_zip_bytes" =>
        \A i \in DOMAIN proc.raw_csv_data :
            LET m == proc.raw_csv_data[i].source IN
            /\ m.base[1] # "jpaud"
            /\ \A j \in DOMAIN m.dirs : m.dirs[j] # "__MACOSX"
            /\ m.base[3] = ".csv"

C26_BadMemberSkippedAlone ==
    proc.fn = "process_zip_bytes" =>
        LET attempted == SelectSeq(proc.csv_files, LAMBDA m : m.base[1] # "jpaud")
            decoded == SelectSeq(attempted, Decodes)
        IN  /\ Len(proc.raw_csv_data) = Len(decoded)
            /\ \A i \in DOMAIN decoded :
                  /\ proc.raw_csv_data[i].source = decoded[i]
                  /\ proc.raw_csv_data[i].filename = decoded[i].base
                  /\ proc.raw_csv_data[i].data = RowsOf(decoded[i].bytes.table)

\* C26 witness: of two listed members the first is attempted and yields no
\* records, the second alone yields an entry, with its three rows in order,
\* the first and the third equal and both kept.
C26_Witness ==
    /\ proc.fn = "process_zip_bytes"
    /\ Len(proc.csv_files) = 2
    /\ ~Decodes(proc.csv_files[1])
    /\ proc.csv_files[1].base[1] # "jpaud"
    /\ Len(proc.raw_csv_data) = 1
    /\ proc.raw_csv_data[1].source = proc.csv_files[2]
    /\ Len(proc.raw_csv_data[1].data) = 3
    /\ proc.raw_csv_data[1].data[1] = proc.raw_csv_data[1].data[3]

(* ----------------------- claims on the decoder ------------------------- *)
IsDecoderCall == proc.fn \in {"read_csv_from_bytes", "read_csv_file"}

\* Decoding and parsing the bytes of the call in an encoding both succeed.
Succeeds(encoding) ==
    /\ proc.readable
    /\ decode(proc.csv_bytes, encoding).ok
    /\ read_csv(decode(proc.csv_bytes, encoding).text).exc = None

\* The detector's guess, when there is one, then the fixed list.
GuessThenFixed ==
    (IF proc.detected = None THEN <<>> ELSE <<proc.detected>>) \o encodings

\* C27: the CSV decoder tries the encoding detector's guess first and then
\* the fixed list UTF-16, UTF-16LE, UTF-16BE, UTF-8, Shift-JIS, EUC-JP,
\* ISO-8859-1, Windows-1252 in that order; it returns the records of the
\* first encoding for which decoding and parsing succeed and never tries a
\* later encoding after a success.
C27_DetectorGuessFirst ==
    (IsDecoderCall /\ proc.readable) =>
        LET tried == proc.out.tried IN
        /\ Len(tried) <= Len(GuessThenFixed)
        /\ \A i \in DOMAIN tried : Codec(tried[i]) = Codec(GuessThenFixed[i])
        /\ \A i \in DOMAIN tried : Succeeds(tried[i]) => i = Len(tried)
        /\ proc.out.kind = "records" =>
              /\ Succeeds(tried[Len(tried)])
              /\ proc.out.records =
                    read_csv(decode(proc.csv_bytes, tried[Len(tried)]).text).records
        /\ proc.out.kind = "None" => Len(tried) = Len(GuessThenFixed)

C29_Utf16RoundTrip ==
    (proc.fn = "read_csv_from_bytes" /\ proc.csv_bytes.form = "utf-16") =>
        LET original == RowsOf(proc.csv_bytes.table)
            expected == [j \in DOMAIN original |->
                           [h \in DOMAIN original[j] |->
                               IF original[j][h] = "" THEN None
                               ELSE original[j][h]]]
        IN  /\ proc.out.kind = "records"
            /\ proc.out.records = expected
            /\ read_csv_from_bytes(proc.csv_bytes) = proc.out

(* ----------------------- claims on the dispatch ------------------------ *)
\* C30: dispatch on the document type code is total and deterministic: "180"
\* selects the Extraordinary processor, "160" the SemiAnnual processor, every
\* other code the Generic processor; exactly one processor runs per filing
\* and dispatch never raises an unknown-type error.
C30_DispatchTotal ==
    (\/ proc.fn = "process_structured_data_from_raw_csv"
     \/ (proc.fn = "process_zip_bytes" /\ proc.raw_csv_data # <<>>)) =>
        /\ Len(proc.ran) = 1
        /\ proc.ran[1] = CASE proc.doc_type_code = "180" -> "ExtraordinaryReportProcessor"
                           [] proc.doc_type_code = "160" -> "SemiAnnualReportProcessor"
                           [] OTHER -> "GenericReportProcessor"
        /\ proc.out.kind \in {"structured", "None"}

\* C30 witness: on extracted records the code "160" ran the SemiAnnual
\* processor alone, which returned structured data.
C30_Witness ==
    /\ proc.fn = "process_zip_bytes"
    /\ proc.raw_csv_data # <<>>
    /\ proc.doc_type_code = "160"
    /\ proc.ran = <<"SemiAnnualReportProcessor">>
    /\ proc.out.kind = "structured"

(* ---------------------- claims on the processors ----------------------- *)
IsProcess(processor) ==
    /\ proc.fn = "process"
    /\ proc.processor = processor
    /\ proc.out.kind = "structured"

\* C31: every structured record returned by a processor (Generic,
\* Extraordinary, SemiAnnual), for any list of input records, has the three
\* keys key_facts, text_blocks and financial_tables, each bound to a
\* container.
C31_AllContainersPresent ==
    (proc.fn = "process" /\ proc.out.kind = "structured") =>
        {"key_facts", "text_blocks", "financial_tables"} \subseteq DOMAIN proc.out.data

\* The value, as it is written, of the first record of an element ID whose
\* context ID is not null and has the substring.
FirstValue(all_records, element_id, substring) ==
    LET hits == {i \in DOMAIN all_records :
                    /\ all_records[i].element_id = element_id
                    /\ all_records[i].context_id # None
                    /\ all_records[i].context_id # ""
                    /\ Has(all_records[i].context_id, substring)}
    IN  IF hits = {} THEN None ELSE all_records[Min(hits)].value

\* The key facts of a record list, with each value passed through normalise.
PairsHold(normalise(_)) ==
    \A k \in DOMAIN key_metrics_map :
        LET name == key_metrics_map[k][2]
            current == normalise(FirstValue(proc.all_records, key_metrics_map[k][1],
                                            "Current"))
            prior == normalise(FirstValue(proc.all_records, key_metrics_map[k][1],
                                          "Prior"))
            key_facts == proc.out.data["key_facts"]
        IN  /\ (name \in DOMAIN key_facts) <=> (current # None \/ prior # None)
            /\ name \in DOMAIN key_facts =>
                  key_facts[name] = [current |-> current, prior |-> prior]

LookupHolds(usable(_), normalise(_)) ==
    LET rs == proc.all_records
        matches(i) ==
            /\ rs[i].element_id = proc.element_id
            /\ \/ proc.context_filter = None
               \/ /\ usable(rs[i].context_id)
                  /\ Has(rs[i].context_id, proc.context_filter)
        hits == {i \in DOMAIN rs : matches(i)}
    IN  IF hits = {} THEN proc.out = None
        ELSE proc.out = normalise(rs[Min(hits)].value)

CuratedFound(all_records) ==
    LET found == SelectSeq(text_block_elements,
                           LAMBDA e : Truthy(get_value_by_id(all_records, e[1], None)))
    IN  [i \in DOMAIN found |->
            [id |-> found[i][1], title_en |-> found[i][2],
             content_jp |-> get_value_by_id(all_records, found[i][1], None)]]

\* C35: in the SemiAnnual processor, if a curated text-block element ID has
\* a non-empty value, text_blocks is exactly the curated blocks found, in the
\* curated order; only when none is found is it all text blocks of the
\* filing.
C35_CuratedOrFallback ==
    IsProcess("SemiAnnualReportProcessor") =>
        LET found == CuratedFound(proc.all_records)
            text_blocks == proc.out.data["text_blocks"]
        IN  IF found # <<>> THEN text_blocks = found
            ELSE text_blocks = get_all_text_blocks(proc.all_records).blocks

\* C35 witness: a text block that is not curated comes first and a curated
\* one second: text_blocks holds the curated one alone.
C35_Witness ==
    /\ IsProcess("SemiAnnualReportProcessor")
    /\ Len(proc.all_records) = 2
    /\ proc.all_records[1].element_id = "jpcrp_cor:NotesTextBlock"
    /\ BlockTest(proc.all_records[1]) = "block"
    /\ proc.all_records[2].element_id = "jpcrp_cor:BusinessRisksTextBlock"
    /\ Len(proc.out.data["text_blocks"]) = 1
    /\ proc.out.data["text_blocks"][1].id = "jpcrp_cor:BusinessRisksTextBlock"

\* C36: get_all_text_blocks never raises for a record list whose cells are
\* strings or null (in particular for a record with a non-TextBlock element
\* ID and a null item name) and returns, in record order and without
\* de-duplication, exactly the records with a non-empty value whose element
\* ID contains "TextBlock" or "ReasonForFiling" or whose item name contains
\* the term for reason for submission.
C36_TextBlocksNeverRaise ==
    proc.fn = "get_all_text_blocks" =>
        LET claimed(r) ==
                /\ Truthy(r.value)
                /\ \/ r.element_id # None /\ Has(r.element_id, "TextBlock")
                   \/ r.element_id # None /\ Has(r.element_id, "ReasonForFiling")
                   \/ r.item_name # None /\ Has(r.item_name, REASON_ITEM)
            expected == SelectSeq(proc.all_records, claimed)
        IN  /\ proc.out.kind = "list"
            /\ proc.out.blocks = [i \in DOMAIN expected |-> TextBlock(expected[i])]

(* ------------------ claims on the two extraction paths ----------------- *)
\* C40: for the same archive and document type, process_zip_bytes and
\* process_zip_file select the same set of CSV members and dispatch to the
\* same processor, so either both return null or both return records built
\* from the same members.
C40_ExtractionPathsAgree ==
    proc.fn = "process_zip_file" =>
        LET inmemory == process_zip_bytes(proc.zip_bytes, "S1", proc.doc_type_code)
            sources(raw) == {raw[i].source : i \in DOMAIN raw}
        IN  /\ sources(proc.raw_csv_data) = sources(inmemory.raw_csv_data)
            /\ proc.ran = inmemory.ran
            /\ (proc.out.kind = "None") <=> (inmemory.out.kind = "None")

(* -------------------------- claims on the demo ------------------------- *)
\* The extraction of a listed filing yields null: no file was downloaded for
\* it, or process_zip_file returns None for its file.
ExtractionNull(doc) ==
    \/ FileName(doc) \notin DOMAIN proc.dir
    \/ \A detect \in DetectFns(proc.dir[FileName(doc)]) :
          process_zip_file(proc.dir[FileName(doc)], doc.docID, doc.docTypeCode,
                           detect).out.kind = "None"

\* C34: a filing whose extraction yields null never appears in the final
\* processed-document list and is never passed to the analysis, although its
\* metadata was in the listing; every filing selected for the analysis has a
\* structured record.
C34_NullExtractionExcluded ==
    proc.fn = "run_demo" =>
        /\ \A i \in DOMAIN proc.docs_metadata :
              LET doc == proc.docs_metadata[i] IN
              ExtractionNull(doc) =>
                  /\ \A j \in DOMAIN proc.structured :
                        proc.structured[j].doc_id # doc.docID
                  /\ \A j \in DOMAIN proc.processed : proc.processed[j] # doc
                  /\ \A j \in DOMAIN proc.to_analyze : proc.to_analyze[j] # doc
                  /\ \A j \in DOMAIN proc.analyzed :
                        proc.analyzed[j].doc_id # doc.docID
        /\ \A j \in DOMAIN proc.to_analyze :
              proc.to_analyze[j].docID \in processed_doc_ids(proc.structured)
        /\ \A j \in DOMAIN proc.analyzed :
              proc.analyzed[j].structured_data.doc_id = proc.analyzed[j].doc_id

\* C34 witness: of three listed filings one has an archive of auditor
\* reports only, whose extraction is null: the demo ends with another filing
\* analysed and this one in neither list.
C34_Witness ==
    /\ proc.fn = "run_demo"
    /\ proc.docs_metadata = <<F1, F2, F5>>
    /\ FileName(F1) \in DOMAIN proc.dir
    /\ proc.dir[FileName(F1)].readable
    /\ proc.dir[FileName(F1)].members[1].base[1] = AUDITOR_REPORT_PREFIX
    /\ proc.processed = <<F5>>
    /\ Len(proc.analyzed) = 1
    /\ proc.analyzed[1].doc_id = "S5"

(* -------------------- claims on the search's termination ---------------- *)
\* C37: get_most_recent_documents probes dates strictly backwards from today,
\* each date at most once and at most days_back + 1 list queries in total,
\* also when the listing of a date raises (that date is skipped and the
\* previous day is tried); it returns the filings of the most recent date
\* with a matching filing together with that date, or ([], None).
C37_EachDateProbedOnce ==
    recent.active =>
        /\ \A i, j \in DOMAIN recent.queried :
              i < j => recent.queried[j] < recent.queried[i]
        /\ recent.queried # <<>> => recent.queried[1] = Today
        /\ recent.days_back >= 0 => Len(recent.queried) <= recent.days_back + 1
        /\ (pc = "recent_done" /\ recent.out.docs # <<>>) =>
              recent.out.date = recent.queried[Len(recent.queried)]
        /\ (pc = "recent_done" /\ recent.out.docs = <<>>) =>
              recent.out.date = NoDate

(* ---------------------- claims on failed cache writes ------------------- *)
\* C38: a set_json/set_binary that reports failure never makes the cache
\* serve wrong data: after any sequence of completed and failed sets, a get
\* returns the value of the latest completed set on the key or a miss, never
\* a truncated or partly written value.
C38_FailedSetServesNothingWrong ==
    IsGet =>
        /\ cacheOp.out.kind \in {"hit", "miss"}
        /\ cacheOp.out.kind = "hit" =>
              /\ lastSet[GetPath].state # "never"
              /\ cacheOp.out = Hit(AsJsonNative(lastSet[GetPath].value))

(* ------------------ claims on files left by a download ------------------ *)
\* C39: after batch download a file exists at a filing's destination only if
\* it holds the complete bytes returned by get_zip_bytes for that filing: a
\* failed fetch or a failed or interrupted write leaves no file there, so a
\* later run does not skip that filing as already downloaded.
C39_OnlyCompleteFiles ==
    /\ \A n \in FileNames : target_dir[n].state \in {"absent", "old", "saved"}
    /\ dl.active =>
          \A k \in DOMAIN dl.log :
              (/\ dl.log[k].event \in {"fetch_failed", "write_failed"}
               /\ dl.dirAtStart[FileName(dl.filing_metadatas[k])].state = "absent")
                  => target_dir[FileName(dl.filing_metadatas[k])].state = "absent"

====
